---- MODULE Spec2Model ----
(***************************************************************************)
(* Renewal Ledger Orchestrator of hubspot-renewal-creation.                *)
(*                                                                         *)
(* The shared state is the renewal_ledger table, the renewal_snapshots     *)
(* table and the CRM (deals, line items, associations).  The processes are *)
(* invocations of the edge functions hubspot-renewal-create (create runs), *)
(* hubspot-renewal-enqueue (enqueue calls), renewal-plan (plan runs) and   *)
(* renewal-snapshot (snapshot runs).  One action is one awaited store or   *)
(* CRM call of a handler together with the local code that follows it up   *)
(* to the next awaited call.                                               *)
(***************************************************************************)
EXTENDS Integers, Sequences, FiniteSets, TLC

(* ------------------------------ bounds -------------------------------- *)
NumKeys == 1
NumRuns == 2
MaxStarts == 3
MaxDeals == 2
MaxItems == 2
MaxFaults == 2
MaxEnqueues == 1
NumClaimers == 3
MaxCharges == 3
MaxCalls == 2
NumSelKeys == 7
MaxBatch == 2
MaxChanges == 2
NumBatchKeys == 2
MaxFingerprints == 2
NumRunKeys == 3
MaxBatches == 2
MaxCapCharges == 62

Keys == 1..NumKeys
Runs == 1..NumRuns
Claimers == 1..NumClaimers
SelKeys == 1..NumSelKeys

(* ------------------------- ledger rows -------------------------------- *)
NoDeal == 0

Statuses == {"planned", "processing", "created", "error"}

MetaKeys == {"hubspot_error", "created_deal_id", "manual_enqueue", "discovered_existing"}

EmptyMeta == [m \in MetaKeys |-> 0]

\* { ...base, ...patch }: a key of the patch replaces the key of the base.
MergeMeta(base, patch) == [m \in MetaKeys |-> IF patch[m] # 0 THEN patch[m] ELSE base[m]]

MetaPatch(keys, dealId) ==
    [m \in MetaKeys |-> IF m \notin keys THEN 0
                        ELSE IF m = "created_deal_id" THEN dealId ELSE 1]

AbsentRow ==
    [status |-> "absent", hubspot_deal_id |-> NoDeal, source_hubspot_deal_id |-> 0,
     metadata |-> EmptyMeta]

\* The subscription_id and term_end_date of ledger key k, as token sequences.
SubscriptionId(k) ==
    << <<"sub-1", "sub-2", "sub-3", "sub-4", "sub-5", "sub-6", "sub-7", "sub-8">>[k] >>

TermEndDate(k) ==
    << <<"2025-06-30", "2025-06-30", "2025-09-30", "2025-12-31", "2025-12-31", "2026-03-31",
         "2026-03-31", "2026-06-30">>[k] >>

\* The position of the key's term_end_date in date order.
TermRank(k) == <<1, 1, 2, 3, 3, 4, 4, 5>>[k]

\* The source deal a key's renewal is enqueued from.
SourceDealOf(k) == k

VARIABLES ledger, snapshots, deals, lineItems, assoc, run, enq, snap, starts, faults, enqueues,
          observed, rowCount, audit

vars == <<ledger, snapshots, deals, lineItems, assoc, run, enq, snap, starts, faults, enqueues,
          observed, rowCount, audit>>

(* ------------------------ the audit log (opsLogger) ------------------- *)
\* The response of a handler invocation; status 0: none sent yet.
NoResponse == [status |-> 0, processed |-> 0, created |-> 0, skipped_locked |-> 0, errors |-> 0]

\* What an invocation of the create handler holds of its audit log: runId (0 is
\* null), the status of its automation_runs row, the automation_events rows it
\* inserted, the log writes that failed, and the response it sent.
IdleAudit ==
    [phase |-> "idle", runId |-> 0, runRow |-> "none", events |-> 0, lost |-> 0,
     startsAt |-> 0, response |-> NoResponse]

(* --------------------- charges and fingerprints ----------------------- *)
\* A charge line of a snapshot: a missing field is the empty sequence.
\* priced: findUnitPrice and mapChargeToRecurringFrequency both give a value.
Charge(chargeId, id, chargeNumber, priced, recurring) ==
    [chargeId |-> chargeId, id |-> id, chargeNumber |-> chargeNumber,
     priced |-> priced, recurring |-> recurring]

isRecurringAndNotCancelled(c) == c.recurring

ChargeIdentifier(c) ==
    IF c.chargeId # <<>> THEN c.chargeId
    ELSE IF c.id # <<>> THEN c.id ELSE c.chargeNumber

OrderChargeIdentifier(c) == IF c.id # <<>> THEN c.id ELSE <<"no-order-charge-id">>

\* A fingerprint that also carries the charge number.
FingerprintWithChargeNumber(k, c) ==
    SubscriptionId(k) \o <<":">> \o TermEndDate(k) \o <<":">>
        \o ChargeIdentifier(c) \o <<":">> \o OrderChargeIdentifier(c)
        \o <<":">> \o c.chargeNumber

Fingerprint(k, c) ==
    SubscriptionId(k) \o <<":">> \o TermEndDate(k) \o <<":">>
        \o ChargeIdentifier(c) \o <<":">> \o OrderChargeIdentifier(c)

\* buildLineItemProperties returns ok.
BuildOk(c) == (c.chargeId # <<>> \/ c.id # <<>>) /\ c.chargeNumber # <<>> /\ c.priced

\* The charge handled without any CRM call: a per-charge error, then continue.
LocalError(c) == ChargeIdentifier(c) = <<>> \/ ~BuildOk(c)

\* A renewal_snapshots row, or its absence.
NoSnapshot == [exists |-> FALSE, younium_charges_json |-> <<>>]

SnapshotOf(charges) == [exists |-> TRUE, younium_charges_json |-> charges]

\* The charges the billing source returns for the order of key k.
BillingCharges(k) == << Charge(<<"c1">>, <<"o1">>, <<"n1">>, TRUE, TRUE) >>

(* ------------------- conditional writes on a ledger row --------------- *)
\* A claim whose update carries no status predicate.
ClaimMatchesAnyStatus(row) == row.status # "absent" /\ row.hubspot_deal_id = NoDeal

\* A claim that tests the row and writes nothing.
ClaimUpdateNoWrite(row) == row

\* A release whose update carries no status predicate.
ReleaseUpdateUnconditional(row, existing) ==
    IF row.status = "absent" THEN row
    ELSE [row EXCEPT !.status = "planned",
                     !.metadata = [existing EXCEPT !["hubspot_error"] = 1]]

\* claimLedgerForProcessing: update ... where status = planned and hubspot_deal_id is null
ClaimMatches(row) == row.status = "planned" /\ row.hubspot_deal_id = NoDeal

ClaimUpdate(row) == IF ClaimMatches(row) THEN [row EXCEPT !.status = "processing"] ELSE row

\* readLedgerMetadata
ReadMetadata(row) == IF row.status = "absent" THEN EmptyMeta ELSE row.metadata

\* A markLedgerError that writes nothing.
MarkErrorUpdateNoWrite(row, existing, withCreatedDealId, dealId) == row

\* markLedgerError: update ... where key = key (no status predicate)
MarkErrorUpdate(row, existing, withCreatedDealId, dealId) ==
    IF row.status = "absent" THEN row
    ELSE [row EXCEPT !.status = "error",
                     !.metadata = MergeMeta(existing,
                         MetaPatch(IF withCreatedDealId
                                   THEN {"hubspot_error", "created_deal_id"}
                                   ELSE {"hubspot_error"}, dealId))]

\* releaseLedgerForRetry: update ... where key = key and status = processing
ReleaseUpdate(row, existing) ==
    IF row.status = "processing"
    THEN [row EXCEPT !.status = "planned",
                     !.metadata = MergeMeta(existing, MetaPatch({"hubspot_error"}, 0))]
    ELSE row

\* the create handler's final update: hubspot_deal_id, status created (no status predicate)
MarkCreatedUpdate(row, existing, dealId) ==
    IF row.status = "absent" THEN row
    ELSE [row EXCEPT !.status = "created", !.hubspot_deal_id = dealId,
                     !.metadata = MergeMeta(existing, MetaPatch({"created_deal_id"}, dealId))]

\* A table that accepts a second row for a key it holds.
NoKeyConflict(k) == FALSE

\* The key (subscription_id, term_end_date) of renewal_ledger is unique: an
\* insert of a key the table holds conflicts.  rowCount[k] is the number of
\* rows the table holds for key k, ledger[k] the row.
KeyConflict(k) == rowCount[k] > 0

\* The view renewals_ready_for_hubspot: planned ledger rows that have a snapshot.
ReadyKeys == {k \in DOMAIN ledger : ledger[k].status = "planned" /\ snapshots[k].exists}

(* ------------------------------ the CRM ------------------------------- *)
\* deals[i] is the ledger key deal i was created for; lineItems[i] is the
\* fingerprint property of line item i; assoc holds <<deal, line item>>.
DealsOf(k) == {i \in 1..Len(deals) : deals[i] = k}

\* A fingerprint search that finds nothing.
ItemsWithNone(fp) == {}

ItemsWith(fp) == {i \in 1..Len(lineItems) : lineItems[i] = fp}

(* --------------------------- create runs ------------------------------ *)
\* The handler's locals.  rows is the rest of readyRows, its head the row in
\* hand; each element is <<key, younium_charges_json>>.
IdleRun ==
    [pc |-> "idle", rows |-> <<>>, dryRun |-> FALSE, createLineItems |-> FALSE,
     rowClaimed |-> FALSE, createdDealIdForRow |-> NoDeal,
     existingMetadata |-> EmptyMeta, extraCreatedDealId |-> FALSE, inCatch |-> FALSE,
     charges |-> <<>>, lineItemId |-> 0,
     createdCount |-> 0, dedupedCount |-> 0, errorCount |-> 0, errorSamples |-> <<>>,
     associatedLineItemIds |-> <<>>, lineItemIds |-> <<>>,
     processedCount |-> 0, created |-> 0, errors |-> 0, skippedLocked |-> 0,
     results |-> 0, lastWrite |-> "none"]

CurKey(s) == Head(s.rows)[1]

\* The locals declared per row at the top of the loop body.
RowReset(s) ==
    [s EXCEPT !.rowClaimed = FALSE, !.createdDealIdForRow = NoDeal,
              !.existingMetadata = EmptyMeta, !.extraCreatedDealId = FALSE,
              !.inCatch = FALSE, !.charges = <<>>, !.lineItemId = 0,
              !.createdCount = 0, !.dedupedCount = 0, !.errorCount = 0,
              !.errorSamples = <<>>,
              !.associatedLineItemIds = <<>>, !.lineItemIds = <<>>, !.lastWrite = "none"]

\* A handler that pushes the result of a row and counts no outcome.
FinishUncounted(s, outcome) ==
    LET t == [s EXCEPT !.results = @ + 1]
    IN  IF Len(s.rows) = 1
        THEN [t EXCEPT !.pc = "done"]
        ELSE [RowReset(t) EXCEPT !.rows = Tail(@), !.pc = "fetch"]

\* A handler that counts every outcome as an error.
FinishAsError(s, outcome) ==
    LET t == [s EXCEPT !.results = @ + 1, !.errors = @ + 1]
    IN  IF Len(s.rows) = 1
        THEN [t EXCEPT !.pc = "done"]
        ELSE [RowReset(t) EXCEPT !.rows = Tail(@), !.pc = "fetch"]

\* results.push(...) and the outcome's counter, then the next row.  outcome is
\* created, error, skipped or dry.  After the last row the row's locals are
\* kept as the loop left them.
Finish(s, outcome) ==
    LET t == [s EXCEPT !.results = @ + 1,
                       !.created = IF outcome = "created" THEN @ + 1 ELSE @,
                       !.errors = IF outcome = "error" THEN @ + 1 ELSE @,
                       !.skippedLocked = IF outcome = "skipped" THEN @ + 1 ELSE @]
    IN  IF Len(s.rows) = 1
        THEN [t EXCEPT !.pc = "done"]
        ELSE [RowReset(t) EXCEPT !.rows = Tail(@), !.pc = "fetch"]

\* A catch that releases the row whether or not a deal id is held.
ThrowInTryReleases(s) ==
    IF ~s.dryRun /\ s.rowClaimed
    THEN [s EXCEPT !.inCatch = TRUE, !.pc = "rel_read"]
    ELSE Finish(s, "error")

\* An exception in the row's try body: the catch releases or marks error.
ThrowInTry(s) ==
    IF ~s.dryRun /\ s.rowClaimed
    THEN [s EXCEPT !.inCatch = TRUE,
                   !.extraCreatedDealId = (s.createdDealIdForRow # NoDeal),
                   !.pc = IF s.createdDealIdForRow # NoDeal THEN "me_read" ELSE "rel_read"]
    ELSE Finish(s, "error")

\* An exception that leaves the row loop and ends the run.
ThrowAbortsBatch(s) == [s EXCEPT !.pc = "done"]

\* An exception anywhere in the row: inside the catch it is logged and dropped.
Throw(s) == IF s.inCatch THEN Finish(s, "error") ELSE ThrowInTry(s)

\* markLedgerError(...) called from the try body.
CallMarkError(s, withCreatedDealId) ==
    [s EXCEPT !.pc = "me_read", !.extraCreatedDealId = withCreatedDealId]

\* Orders of the ready rows the query may return: order by term_end_date only.
RECURSIVE Orders(_)
Orders(S) ==
    IF S = {} THEN {<<>>}
    ELSE UNION {{<<k>> \o t : t \in Orders(S \ {k})} :
                k \in {m \in S : \A n \in S : TermRank(m) <= TermRank(n)}}

ReadyRowsOf(order) == [i \in 1..Len(order) |-> <<order[i], snapshots[order[i]].younium_charges_json>>]

ErrorSampleCap == 10

\* An uncapped list of samples.
PushErrorUncapped(s) ==
    [s EXCEPT !.errorCount = @ + 1, !.errorSamples = Append(@, "message")]

\* pushError, and the handler's amount-update catch: the count always, the
\* message only while fewer than ErrorSampleCap are kept.
PushError(s) ==
    [s EXCEPT !.errorCount = @ + 1,
              !.errorSamples = IF Len(@) < ErrorSampleCap THEN Append(@, "message") ELSE @]

\* processLineItemsForRow up to its next CRM call: charges handled locally
\* (missing identifier, build failure) count an error each.
RECURSIVE LineItemLoop(_)
LineItemLoop(s) ==
    IF s.charges = <<>>
    THEN [s EXCEPT !.pc = IF s.associatedLineItemIds # <<>> THEN "amount" ELSE "mc_read"]
    ELSE IF LocalError(Head(s.charges))
    THEN LineItemLoop(PushError([s EXCEPT !.charges = Tail(@)]))
    ELSE [s EXCEPT !.pc = "li_search"]

\* const charges = parseCharges(...).filter(isRecurringAndNotCancelled)
EligibleCharges(json) == SelectSeq(json, isRecurringAndNotCancelled)

LineItemIdCap == 50

\* pushLineItemId on associatedLineItemIds (every distinct id) ...
PushLineItemId(ids, id) ==
    IF \E i \in 1..Len(ids) : ids[i] = id THEN ids ELSE Append(ids, id)

\* ... and on lineItemIds (the first LineItemIdCap of them)
PushCappedLineItemId(associated, ids, id) ==
    IF (\E i \in 1..Len(associated) : associated[i] = id) \/ Len(ids) >= LineItemIdCap
    THEN ids ELSE Append(ids, id)

\* A per-charge catch that leaves the charge loop.
ChargeErrorAborts(s) == PushError([s EXCEPT !.lineItemId = 0, !.pc = "mc_read"])

\* catch of the per-charge try: pushError, next charge.
ChargeError(s) ==
    LineItemLoop(PushError([s EXCEPT !.charges = Tail(@), !.lineItemId = 0]))

(* Start of a run: the options of the request and the ready-row query. *)
StartRun(r) ==
    /\ run[r].pc \in {"idle", "done"}
    /\ starts < MaxStarts
    /\ starts' = starts + 1
    /\ \E dry \in BOOLEAN, li \in BOOLEAN, order \in Orders(ReadyKeys) :
         LET s == [IdleRun EXCEPT !.dryRun = dry, !.createLineItems = li,
                                  !.rows = ReadyRowsOf(order),
                                  !.processedCount = Len(order)]
         IN  run' = [run EXCEPT ![r] =
                        [s EXCEPT !.pc = IF s.rows = <<>> THEN "done" ELSE "fetch"]]
    /\ UNCHANGED <<ledger, snapshots, deals, lineItems, assoc, enq, snap, faults, enqueues, observed, rowCount, audit>>

\* A handler that goes on to the claim in a dry run too.
AfterSourceDealClaims(s) == [s EXCEPT !.pc = "claim"]

\* With the source deal in hand: a dry run pushes would_create and takes the
\* next row (its processLineItemsForRow makes no call), any other run claims.
AfterSourceDeal(s) == IF s.dryRun THEN Finish(s, "dry") ELSE [s EXCEPT !.pc = "claim"]

(* GET of the source deal. *)
FetchSourceDeal(r) ==
    /\ run[r].pc = "fetch"
    /\ run' = [run EXCEPT ![r] = AfterSourceDeal(@)]
    /\ UNCHANGED <<ledger, snapshots, deals, lineItems, assoc, enq, snap, starts, faults, enqueues, observed, rowCount, audit>>

(* The source deal answers 404. *)
FetchSourceDealNotFound(r) ==
    /\ run[r].pc = "fetch"
    /\ faults < MaxFaults
    /\ faults' = faults + 1
    /\ run' = [run EXCEPT ![r] =
                  IF @.dryRun THEN Finish(@, "error") ELSE CallMarkError(@, FALSE)]
    /\ UNCHANGED <<ledger, snapshots, deals, lineItems, assoc, enq, snap, starts, enqueues, observed, rowCount, audit>>

(* The source deal answers another error, or the fetch throws. *)
FetchSourceDealFails(r) ==
    /\ run[r].pc = "fetch"
    /\ faults < MaxFaults
    /\ faults' = faults + 1
    /\ run' = [run EXCEPT ![r] = Finish(@, "error")]
    /\ UNCHANGED <<ledger, snapshots, deals, lineItems, assoc, enq, snap, starts, enqueues, observed, rowCount, audit>>

(* claimLedgerForProcessing: one conditional update. *)
Claim(r) ==
    /\ run[r].pc = "claim"
    /\ LET k == CurKey(run[r])
       IN  /\ ledger' = [ledger EXCEPT ![k] = ClaimUpdate(@)]
           /\ run' = [run EXCEPT ![r] =
                         IF ClaimMatches(ledger[k])
                         THEN [@ EXCEPT !.rowClaimed = TRUE, !.pc = "deal", !.lastWrite = "claim"]
                         ELSE Finish([@ EXCEPT !.lastWrite = "claim"], "skipped")]
    /\ UNCHANGED <<snapshots, deals, lineItems, assoc, enq, snap, starts, faults, enqueues, observed, rowCount, audit>>

(* The claim's update returns a store error. *)
ClaimFails(r) ==
    /\ run[r].pc = "claim"
    /\ faults < MaxFaults
    /\ faults' = faults + 1
    /\ run' = [run EXCEPT ![r] = Throw(@)]
    /\ UNCHANGED <<ledger, snapshots, deals, lineItems, assoc, enq, snap, starts, enqueues, observed, rowCount, audit>>

(* POST of the forecast deal answers 2xx with an id. *)
CreateDeal(r) ==
    /\ run[r].pc = "deal"
    /\ Len(deals) < MaxDeals
    /\ deals' = Append(deals, CurKey(run[r]))
    /\ run' = [run EXCEPT ![r] =
                  LET s == [@ EXCEPT !.createdDealIdForRow = Len(deals) + 1]
                  IN  IF s.createLineItems
                      THEN LineItemLoop([s EXCEPT !.charges = EligibleCharges(Head(s.rows)[2])])
                      ELSE [s EXCEPT !.pc = "mc_read"]]
    /\ UNCHANGED <<ledger, snapshots, lineItems, assoc, enq, snap, starts, faults, enqueues, observed, rowCount, audit>>

(* POST of the forecast deal answers non-2xx: no deal, release for retry. *)
CreateDealRejected(r) ==
    /\ run[r].pc = "deal"
    /\ faults < MaxFaults
    /\ faults' = faults + 1
    /\ run' = [run EXCEPT ![r] = [@ EXCEPT !.pc = "rel_read"]]
    /\ UNCHANGED <<ledger, snapshots, deals, lineItems, assoc, enq, snap, starts, enqueues, observed, rowCount, audit>>

(* POST of the forecast deal answers 2xx without an id: the deal exists. *)
CreateDealMissingId(r) ==
    /\ run[r].pc = "deal"
    /\ faults < MaxFaults
    /\ Len(deals) < MaxDeals
    /\ faults' = faults + 1
    /\ deals' = Append(deals, CurKey(run[r]))
    /\ run' = [run EXCEPT ![r] = CallMarkError(@, FALSE)]
    /\ UNCHANGED <<ledger, snapshots, lineItems, assoc, enq, snap, starts, enqueues, observed, rowCount, audit>>

(* The POST throws (connection lost): the deal was created, or was not. *)
CreateDealThrows(r) ==
    /\ run[r].pc = "deal"
    /\ faults < MaxFaults
    /\ faults' = faults + 1
    /\ \/ deals' = deals
       \/ /\ Len(deals) < MaxDeals
          /\ deals' = Append(deals, CurKey(run[r]))
    /\ run' = [run EXCEPT ![r] = Throw(@)]
    /\ UNCHANGED <<ledger, snapshots, lineItems, assoc, enq, snap, starts, enqueues, observed, rowCount, audit>>

\* A run that creates without looking at the search result.
SearchLineItemNeverFinds(r) ==
    /\ run[r].pc = "li_search"
    /\ run' = [run EXCEPT ![r] = [@ EXCEPT !.pc = "li_create"]]
    /\ UNCHANGED <<ledger, snapshots, deals, lineItems, assoc, enq, snap, starts, faults, enqueues, observed, rowCount, audit>>

(* searchLineItemByFingerprint: the first result, or none. *)
SearchLineItem(r) ==
    /\ run[r].pc = "li_search"
    /\ LET found == ItemsWith(Fingerprint(CurKey(run[r]), Head(run[r].charges)))
       IN  IF found = {}
           THEN run' = [run EXCEPT ![r] = [@ EXCEPT !.pc = "li_create"]]
           ELSE \E id \in found :
                  run' = [run EXCEPT ![r] =
                             [@ EXCEPT !.lineItemId = id, !.dedupedCount = @ + 1,
                                       !.pc = "li_assoc"]]
    /\ UNCHANGED <<ledger, snapshots, deals, lineItems, assoc, enq, snap, starts, faults, enqueues, observed, rowCount, audit>>

SearchLineItemFails(r) ==
    /\ run[r].pc = "li_search"
    /\ faults < MaxFaults
    /\ faults' = faults + 1
    /\ run' = [run EXCEPT ![r] = ChargeError(@)]
    /\ UNCHANGED <<ledger, snapshots, deals, lineItems, assoc, enq, snap, starts, enqueues, observed, rowCount, audit>>

(* createHubSpotLineItem *)
CreateLineItem(r) ==
    /\ run[r].pc = "li_create"
    /\ Len(lineItems) < MaxItems
    /\ lineItems' = Append(lineItems, Fingerprint(CurKey(run[r]), Head(run[r].charges)))
    /\ run' = [run EXCEPT ![r] =
                  [@ EXCEPT !.lineItemId = Len(lineItems) + 1, !.createdCount = @ + 1,
                            !.pc = "li_assoc"]]
    /\ UNCHANGED <<ledger, snapshots, deals, assoc, enq, snap, starts, faults, enqueues, observed, rowCount, audit>>

(* The line-item POST fails: rejected (nothing created), or the answer is
   lost or carries no id (the line item exists). *)
CreateLineItemFails(r) ==
    /\ run[r].pc = "li_create"
    /\ faults < MaxFaults
    /\ faults' = faults + 1
    /\ \/ lineItems' = lineItems
       \/ /\ Len(lineItems) < MaxItems
          /\ lineItems' = Append(lineItems, Fingerprint(CurKey(run[r]), Head(run[r].charges)))
    /\ run' = [run EXCEPT ![r] = ChargeError(@)]
    /\ UNCHANGED <<ledger, snapshots, deals, assoc, enq, snap, starts, enqueues, observed, rowCount, audit>>

(* associateDealToLineItem: 2xx, or 409 already associated. *)
AssociateLineItem(r) ==
    /\ run[r].pc = "li_assoc"
    /\ assoc' = assoc \cup {<<run[r].createdDealIdForRow, run[r].lineItemId>>}
    /\ run' = [run EXCEPT ![r] =
                  LineItemLoop([@ EXCEPT
                      !.lineItemIds = PushCappedLineItemId(run[r].associatedLineItemIds, @,
                                                           run[r].lineItemId),
                      !.associatedLineItemIds = PushLineItemId(@, run[r].lineItemId),
                      !.charges = Tail(@), !.lineItemId = 0])]
    /\ UNCHANGED <<ledger, snapshots, deals, lineItems, enq, snap, starts, faults, enqueues, observed, rowCount, audit>>

AssociateLineItemFails(r) ==
    /\ run[r].pc = "li_assoc"
    /\ faults < MaxFaults
    /\ faults' = faults + 1
    /\ run' = [run EXCEPT ![r] = ChargeError(@)]
    /\ UNCHANGED <<ledger, snapshots, deals, lineItems, assoc, enq, snap, starts, enqueues, observed, rowCount, audit>>

(* fetchLineItemsNetTcv and updateDealAmount. *)
UpdateAmount(r) ==
    /\ run[r].pc = "amount"
    /\ run' = [run EXCEPT ![r] = [@ EXCEPT !.pc = "mc_read"]]
    /\ UNCHANGED <<ledger, snapshots, deals, lineItems, assoc, enq, snap, starts, faults, enqueues, observed, rowCount, audit>>

UpdateAmountFails(r) ==
    /\ run[r].pc = "amount"
    /\ faults < MaxFaults
    /\ faults' = faults + 1
    /\ run' = [run EXCEPT ![r] = PushError([@ EXCEPT !.pc = "mc_read"])]
    /\ UNCHANGED <<ledger, snapshots, deals, lineItems, assoc, enq, snap, starts, enqueues, observed, rowCount, audit>>

(* readLedgerMetadata, before each of the three metadata-merging writes. *)
ReadLedgerMetadata(r) ==
    /\ run[r].pc \in {"mc_read", "me_read", "rel_read"}
    /\ run' = [run EXCEPT ![r] =
                  [@ EXCEPT !.existingMetadata = ReadMetadata(ledger[CurKey(run[r])]),
                            !.pc = CASE run[r].pc = "mc_read" -> "mc_write"
                                     [] run[r].pc = "me_read" -> "me_write"
                                     [] OTHER -> "rel_write"]]
    /\ UNCHANGED <<ledger, snapshots, deals, lineItems, assoc, enq, snap, starts, faults, enqueues, observed, rowCount, audit>>

ReadLedgerMetadataFails(r) ==
    /\ run[r].pc \in {"mc_read", "me_read", "rel_read"}
    /\ faults < MaxFaults
    /\ faults' = faults + 1
    /\ run' = [run EXCEPT ![r] = Throw(@)]
    /\ UNCHANGED <<ledger, snapshots, deals, lineItems, assoc, enq, snap, starts, enqueues, observed, rowCount, audit>>

(* The handler's update to created. *)
MarkCreated(r) ==
    /\ run[r].pc = "mc_write"
    /\ ledger' = [ledger EXCEPT ![CurKey(run[r])] =
                     MarkCreatedUpdate(@, run[r].existingMetadata, run[r].createdDealIdForRow)]
    /\ run' = [run EXCEPT ![r] = Finish([@ EXCEPT !.lastWrite = "markCreated"], "created")]
    /\ UNCHANGED <<snapshots, deals, lineItems, assoc, enq, snap, starts, faults, enqueues, observed, rowCount, audit>>

(* The update to created returns an error: markLedgerError with created_deal_id. *)
MarkCreatedFails(r) ==
    /\ run[r].pc = "mc_write"
    /\ faults < MaxFaults
    /\ faults' = faults + 1
    /\ run' = [run EXCEPT ![r] = CallMarkError(@, TRUE)]
    /\ UNCHANGED <<ledger, snapshots, deals, lineItems, assoc, enq, snap, starts, enqueues, observed, rowCount, audit>>

(* markLedgerError's update. *)
MarkError(r) ==
    /\ run[r].pc = "me_write"
    /\ ledger' = [ledger EXCEPT ![CurKey(run[r])] =
                     MarkErrorUpdate(@, run[r].existingMetadata,
                                     run[r].extraCreatedDealId, run[r].createdDealIdForRow)]
    /\ run' = [run EXCEPT ![r] = Finish([@ EXCEPT !.lastWrite = "markError"], "error")]
    /\ UNCHANGED <<snapshots, deals, lineItems, assoc, enq, snap, starts, faults, enqueues, observed, rowCount, audit>>

MarkErrorFails(r) ==
    /\ run[r].pc = "me_write"
    /\ faults < MaxFaults
    /\ faults' = faults + 1
    /\ run' = [run EXCEPT ![r] = Throw(@)]
    /\ UNCHANGED <<ledger, snapshots, deals, lineItems, assoc, enq, snap, starts, enqueues, observed, rowCount, audit>>

(* releaseLedgerForRetry's update. *)
Release(r) ==
    /\ run[r].pc = "rel_write"
    /\ ledger' = [ledger EXCEPT ![CurKey(run[r])] =
                     ReleaseUpdate(@, run[r].existingMetadata)]
    /\ run' = [run EXCEPT ![r] =
                  Finish([@ EXCEPT !.lastWrite =
                              IF ledger[CurKey(run[r])].status = "processing"
                              THEN "release" ELSE "release_unmatched"], "error")]
    /\ UNCHANGED <<snapshots, deals, lineItems, assoc, enq, snap, starts, faults, enqueues, observed, rowCount, audit>>

ReleaseFails(r) ==
    /\ run[r].pc = "rel_write"
    /\ faults < MaxFaults
    /\ faults' = faults + 1
    /\ run' = [run EXCEPT ![r] = Throw(@)]
    /\ UNCHANGED <<ledger, snapshots, deals, lineItems, assoc, enq, snap, starts, enqueues, observed, rowCount, audit>>

CreateRunStep(r) ==
    \/ StartRun(r)
    \/ FetchSourceDeal(r) \/ FetchSourceDealNotFound(r) \/ FetchSourceDealFails(r)
    \/ Claim(r) \/ ClaimFails(r)
    \/ CreateDeal(r) \/ CreateDealRejected(r) \/ CreateDealMissingId(r) \/ CreateDealThrows(r)
    \/ SearchLineItem(r) \/ SearchLineItemFails(r)
    \/ CreateLineItem(r) \/ CreateLineItemFails(r)
    \/ AssociateLineItem(r) \/ AssociateLineItemFails(r)
    \/ UpdateAmount(r) \/ UpdateAmountFails(r)
    \/ ReadLedgerMetadata(r) \/ ReadLedgerMetadataFails(r)
    \/ MarkCreated(r) \/ MarkCreatedFails(r)
    \/ MarkError(r) \/ MarkErrorFails(r)
    \/ Release(r) \/ ReleaseFails(r)

(* --------------------------- enqueue calls ---------------------------- *)
IdleEnqueue ==
    [pc |-> "idle", key |-> 0, existingLedger |-> AbsentRow, existing |-> AbsentRow,
     hubspotDealId |-> NoDeal]

ManualPatch == MetaPatch({"manual_enqueue"}, 0)

\* An upsertManualQueueRow that sets every existing row to planned.
ManualQueueUpdateSetsPlanned(row, existingRow, sourceDealId) ==
    IF row.status = "absent" THEN row
    ELSE [row EXCEPT !.status = "planned", !.source_hubspot_deal_id = sourceDealId,
                     !.metadata = MergeMeta(existingRow.metadata, ManualPatch)]

\* upsertManualQueueRow's write, decided on the row read earlier (existingRow).
ManualQueueUpdate(row, existingRow, sourceDealId) ==
    IF row.status = "absent" THEN row
    ELSE IF existingRow.status \in {"planned", "processing"}
    THEN [row EXCEPT !.source_hubspot_deal_id = sourceDealId,
                     !.metadata = MergeMeta(existingRow.metadata, ManualPatch)]
    ELSE [row EXCEPT !.status = "planned", !.source_hubspot_deal_id = sourceDealId,
                     !.metadata = MergeMeta(existingRow.metadata, ManualPatch)]

\* markLedgerAsCreated's update of an existing row (no status predicate).
LedgerAsCreatedUpdate(row, existing, sourceDealId, hubspotDealId) ==
    IF row.status = "absent" THEN row
    ELSE [row EXCEPT !.status = "created", !.source_hubspot_deal_id = sourceDealId,
                     !.hubspot_deal_id = hubspotDealId,
                     !.metadata = MergeMeta(existing.metadata,
                                            MetaPatch({"discovered_existing"}, 0))]

(* The handler up to loadLedgerRow: the source deal resolves to key k. *)
EnqueueLoad(k) ==
    /\ enq.pc \in {"idle", "done"}
    /\ enqueues < MaxEnqueues
    /\ enqueues' = enqueues + 1
    /\ enq' = [IdleEnqueue EXCEPT !.key = k, !.existingLedger = ledger[k],
                  !.pc = IF ledger[k].hubspot_deal_id # NoDeal THEN "done" ELSE "by_source"]
    /\ UNCHANGED <<ledger, snapshots, deals, lineItems, assoc, run, snap, starts, faults, observed, rowCount, audit>>

(* loadMostRecentCreatedBySourceDeal *)
EnqueueLoadBySource ==
    /\ enq.pc = "by_source"
    /\ enq' = [enq EXCEPT !.pc =
                  IF \E k \in Keys : /\ ledger[k].status # "absent"
                                     /\ ledger[k].source_hubspot_deal_id = SourceDealOf(enq.key)
                                     /\ ledger[k].hubspot_deal_id # NoDeal
                  THEN "done" ELSE "search"]
    /\ UNCHANGED <<ledger, snapshots, deals, lineItems, assoc, run, snap, starts, faults, enqueues, observed, rowCount, audit>>

(* findExistingHubSpotRenewalDealId: a deal whose original_deal_id is the source deal. *)
EnqueueSearchDeal ==
    /\ enq.pc = "search"
    /\ LET found == UNION {DealsOf(k) : k \in {j \in Keys : SourceDealOf(j) = SourceDealOf(enq.key)}}
       IN  IF found = {}
           THEN enq' = [enq EXCEPT !.pc = "upsert"]
           ELSE \E id \in found : enq' = [enq EXCEPT !.hubspotDealId = id, !.pc = "mac_read"]
    /\ UNCHANGED <<ledger, snapshots, deals, lineItems, assoc, run, snap, starts, faults, enqueues, observed, rowCount, audit>>

(* markLedgerAsCreated: loadLedgerRow *)
EnqueueReadForCreated ==
    /\ enq.pc = "mac_read"
    /\ enq' = [enq EXCEPT !.existing = ledger[enq.key], !.pc = "mac_write"]
    /\ UNCHANGED <<ledger, snapshots, deals, lineItems, assoc, run, snap, starts, faults, enqueues, observed, rowCount, audit>>

(* markLedgerAsCreated: update of the row read, or insert when none was read
   (the insert fails on the key's unique constraint when the row exists now). *)
EnqueueMarkAsCreated ==
    /\ enq.pc = "mac_write"
    /\ ledger' = [ledger EXCEPT ![enq.key] =
                     IF enq.existing.status # "absent"
                     THEN LedgerAsCreatedUpdate(@, enq.existing, SourceDealOf(enq.key),
                                                enq.hubspotDealId)
                     ELSE IF ~KeyConflict(enq.key)
                     THEN [status |-> "created", hubspot_deal_id |-> enq.hubspotDealId,
                           source_hubspot_deal_id |-> SourceDealOf(enq.key),
                           metadata |-> MetaPatch({"discovered_existing"}, 0)]
                     ELSE @]
    /\ rowCount' = [rowCount EXCEPT ![enq.key] =
                       IF enq.existing.status = "absent" /\ ~KeyConflict(enq.key)
                       THEN @ + 1 ELSE @]
    /\ enq' = [enq EXCEPT !.pc = "done"]
    /\ UNCHANGED <<snapshots, deals, lineItems, assoc, run, snap, starts, faults, enqueues, observed, audit>>

(* upsertManualQueueRow: insert when no row was read, else the update chosen
   by the status read. *)
EnqueueUpsert ==
    /\ enq.pc = "upsert"
    /\ ledger' = [ledger EXCEPT ![enq.key] =
                     IF enq.existingLedger.status # "absent"
                     THEN ManualQueueUpdate(@, enq.existingLedger, SourceDealOf(enq.key))
                     ELSE IF ~KeyConflict(enq.key)
                     THEN [status |-> "planned", hubspot_deal_id |-> NoDeal,
                           source_hubspot_deal_id |-> SourceDealOf(enq.key),
                           metadata |-> ManualPatch]
                     ELSE @]
    /\ rowCount' = [rowCount EXCEPT ![enq.key] =
                       IF enq.existingLedger.status = "absent" /\ ~KeyConflict(enq.key)
                       THEN @ + 1 ELSE @]
    /\ enq' = [enq EXCEPT !.pc = "done"]
    /\ UNCHANGED <<snapshots, deals, lineItems, assoc, run, snap, starts, faults, enqueues, observed, audit>>

(* Any store or CRM call of the handler fails: the handler answers 500. *)
EnqueueFails ==
    /\ enq.pc \in {"by_source", "search", "mac_read", "mac_write", "upsert"}
    /\ faults < MaxFaults
    /\ faults' = faults + 1
    /\ enq' = [enq EXCEPT !.pc = "done"]
    /\ UNCHANGED <<ledger, snapshots, deals, lineItems, assoc, run, snap, starts, enqueues, observed, rowCount, audit>>

EnqueueStep ==
    \/ \E k \in Keys : EnqueueLoad(k)
    \/ EnqueueLoadBySource \/ EnqueueSearchDeal
    \/ EnqueueReadForCreated \/ EnqueueMarkAsCreated
    \/ EnqueueUpsert \/ EnqueueFails

(* ----------------------------- plan runs ------------------------------ *)
\* upsert(ledgerRows, onConflict key, ignoreDuplicates): insert the absent keys.
PlanUpsert(K) ==
    /\ \E k \in K : ~KeyConflict(k)
    /\ ledger' = [k \in Keys |->
                     IF k \in K /\ ~KeyConflict(k)
                     THEN [AbsentRow EXCEPT !.status = "planned"]
                     ELSE ledger[k]]
    /\ rowCount' = [k \in Keys |-> IF k \in K /\ ~KeyConflict(k) THEN rowCount[k] + 1
                                     ELSE rowCount[k]]
    /\ UNCHANGED <<snapshots, deals, lineItems, assoc, run, enq, snap, starts, faults, enqueues, observed, audit>>

(* --------------------------- snapshot runs ---------------------------- *)
\* fetchPlannedRowsWithoutSnapshot
SnapshotSelect ==
    /\ snap.pc = "idle"
    /\ LET due == {k \in Keys : ledger[k].status = "planned" /\ ~snapshots[k].exists}
       IN  /\ due # {}
           /\ snap' = [pc |-> "upsert", batch |-> due]
    /\ UNCHANGED <<ledger, snapshots, deals, lineItems, assoc, run, enq, starts, faults, enqueues, observed, rowCount, audit>>

\* upsert of the snapshot rows of the batch whose charges could be fetched
SnapshotUpsert ==
    /\ snap.pc = "upsert"
    /\ \E done \in SUBSET snap.batch :
         snapshots' = [k \in Keys |-> IF k \in done THEN SnapshotOf(BillingCharges(k)) ELSE snapshots[k]]
    /\ snap' = [pc |-> "idle", batch |-> {}]
    /\ UNCHANGED <<ledger, deals, lineItems, assoc, run, enq, starts, faults, enqueues, observed, rowCount, audit>>

(* --------------------------- specification ---------------------------- *)
Init ==
    /\ ledger = [k \in Keys |-> AbsentRow]
    /\ snapshots = [k \in Keys |-> NoSnapshot]
    /\ deals = <<>>
    /\ lineItems = <<>>
    /\ assoc = {}
    /\ run = [r \in Runs |-> IdleRun]
    /\ enq = IdleEnqueue
    /\ snap = [pc |-> "idle", batch |-> {}]
    /\ starts = 0
    /\ faults = 0
    /\ enqueues = 0
    /\ observed = <<>>
    /\ rowCount = [k \in Keys |-> 0]
    /\ audit = [r \in Runs |-> IdleAudit]

Next ==
    \/ \E r \in Runs : CreateRunStep(r)
    \/ EnqueueStep
    \/ \E K \in SUBSET Keys : PlanUpsert(K)
    \/ SnapshotSelect
    \/ SnapshotUpsert

Spec == Init /\ [][Next]_vars

(* ------------------- concurrent claims of one row --------------------- *)
\* NumClaimers create runs have fetched the same ready row and are about to
\* call claimLedgerForProcessing; the row is in any state a ledger row can
\* hold.  observed keeps the row as it was before the first claim.
LedgerRows ==
    [status : Statuses, hubspot_deal_id : {NoDeal} \cup (1..MaxDeals),
     source_hubspot_deal_id : {0}, metadata : [MetaKeys -> {0, 1}]]

ClaimRaceInit ==
    \E k \in Keys, row \in LedgerRows :
        /\ ledger = [j \in Keys |-> IF j = k THEN row ELSE AbsentRow]
        /\ snapshots = [j \in Keys |-> IF j = k THEN SnapshotOf(BillingCharges(k)) ELSE NoSnapshot]
        /\ deals = <<>>
        /\ lineItems = <<>>
        /\ assoc = {}
        /\ run = [r \in Claimers |->
                     [IdleRun EXCEPT !.pc = "claim", !.processedCount = 1,
                                     !.rows = << <<k, BillingCharges(k)>> >>]]
        /\ enq = IdleEnqueue
        /\ snap = [pc |-> "idle", batch |-> {}]
        /\ starts = 0
        /\ faults = 0
        /\ enqueues = 0
        /\ observed = <<row>>
        /\ rowCount = [j \in Keys |-> IF j = k THEN 1 ELSE 0]
        /\ audit = [r \in Runs |-> IdleAudit]

ClaimRaceNext == \E r \in Claimers : Claim(r)

SpecClaimRace == ClaimRaceInit /\ [][ClaimRaceNext]_vars

(* ------------------- repeated line-item materialisation --------------- *)
\* Charge lines a snapshot can hold: two distinct charges, a second line of
\* the first charge (same identifiers), an unpriced charge, a one-off charge
\* and a charge without any identifier.
ChargePool ==
    { Charge(<<"c1">>, <<"o1">>, <<"n1">>, TRUE, TRUE),
      Charge(<<"c2">>, <<"o2">>, <<"n2">>, TRUE, TRUE),
      Charge(<<"c1">>, <<"o1">>, <<"n9">>, TRUE, TRUE),
      Charge(<<"c1">>, <<"o5">>, <<"n1">>, TRUE, TRUE),
      Charge(<<"c3">>, <<"o3">>, <<"n3">>, FALSE, TRUE),
      Charge(<<"c4">>, <<"o4">>, <<"n4">>, TRUE, FALSE),
      Charge(<<"c5">>, <<"o6">>, <<>>, TRUE, TRUE),
      Charge(<<>>, <<>>, <<"n7">>, TRUE, TRUE),
      Charge(<<>>, <<>>, <<>>, TRUE, TRUE) }

ChargeLists == UNION {[1..n -> ChargePool] : n \in 0..MaxCharges}

\* The LineItemRunSummary processLineItemsForRow returns.
LineItemRunSummary(s) ==
    [createdCount |-> s.createdCount, dedupedCount |-> s.dedupedCount,
     errorCount |-> s.errorCount, errorSamples |-> s.errorSamples,
     lineItemIds |-> s.lineItemIds,
     associatedLineItemIds |-> s.associatedLineItemIds]

\* The single invocation at work.
FirstRun == {r \in Runs : \A q \in Runs : r <= q}

\* One claimed row with its snapshot and the forecast deals created for it;
\* processLineItemsForRow is called on it MaxCalls times, one call after the
\* other, and observed collects the summaries returned.
MaterializeInit ==
    \E k \in Keys, cs \in ChargeLists :
        /\ ledger = [j \in Keys |->
                        IF j = k THEN [AbsentRow EXCEPT !.status = "processing"] ELSE AbsentRow]
        /\ snapshots = [j \in Keys |-> IF j = k THEN SnapshotOf(cs) ELSE NoSnapshot]
        /\ deals = [i \in 1..MaxDeals |-> k]
        /\ lineItems = <<>>
        /\ assoc = {}
        /\ run = [r \in FirstRun |->
                     [IdleRun EXCEPT !.pc = "returned", !.processedCount = 1,
                                     !.createLineItems = TRUE, !.rowClaimed = TRUE,
                                     !.rows = << <<k, cs>> >>]]
        /\ enq = IdleEnqueue
        /\ snap = [pc |-> "idle", batch |-> {}]
        /\ starts = 0
        /\ faults = 0
        /\ enqueues = 0
        /\ observed = <<>>
        /\ rowCount = [j \in Keys |-> IF j = k THEN 1 ELSE 0]
        /\ audit = [r \in Runs |-> IdleAudit]

\* processLineItemsForRow({row, createdDealId, ...}): fresh counters and lists.
MaterializeCall(r) ==
    /\ run[r].pc = "returned"
    /\ Len(observed) < MaxCalls
    /\ \E d \in DealsOf(CurKey(run[r])) :
         run' = [run EXCEPT ![r] =
                    LineItemLoop([RowReset(@) EXCEPT
                        !.rowClaimed = TRUE, !.createdDealIdForRow = d,
                        !.charges = EligibleCharges(Head(run[r].rows)[2])])]
    /\ UNCHANGED <<ledger, snapshots, deals, lineItems, assoc, enq, snap, starts, faults, enqueues, observed, rowCount, audit>>

\* return { createdCount, dedupedCount, errorCount, lineItemIds, ... }
MaterializeReturn(r) ==
    /\ run[r].pc \in {"amount", "mc_read"}
    /\ observed' = Append(observed, LineItemRunSummary(run[r]))
    /\ run' = [run EXCEPT ![r] = [@ EXCEPT !.pc = "returned"]]
    /\ UNCHANGED <<ledger, snapshots, deals, lineItems, assoc, enq, snap, starts, faults, enqueues, rowCount, audit>>

MaterializeNext ==
    \E r \in FirstRun :
        \/ MaterializeCall(r)
        \/ SearchLineItem(r) \/ SearchLineItemFails(r)
        \/ CreateLineItem(r) \/ CreateLineItemFails(r)
        \/ AssociateLineItem(r) \/ AssociateLineItemFails(r)
        \/ MaterializeReturn(r)

SpecMat == MaterializeInit /\ [][MaterializeNext]_vars

(* ------------------------ the snapshot selector ----------------------- *)
\* fetchPlannedRowsWithoutSnapshot, one store query per step, on a ledger of
\* NumSelKeys keys.  snap holds its parameters and locals; observed logs the
\* store changes other invocations make while it runs.

\* order('term_end_date').order('subscription_id')
KeyBefore(a, b) == TermRank(a) < TermRank(b) \/ (TermRank(a) = TermRank(b) /\ a < b)

RECURSIVE SortKeys(_)
SortKeys(S) ==
    IF S = {} THEN <<>>
    ELSE LET first == CHOOSE k \in S : \A j \in S \ {k} : KeyBefore(k, j)
         IN  <<first>> \o SortKeys(S \ {first})

\* The planned rows, of the source deal when a filter is given, in query order.
PlannedOrdered(filter) ==
    SortKeys({k \in DOMAIN ledger :
                 /\ ledger[k].status = "planned"
                 /\ filter = NoDeal \/ ledger[k].source_hubspot_deal_id = filter})

\* .limit(n) and .range(offset, offset + n - 1)
RangeOf(rows, offset, n) ==
    SubSeq(rows, offset + 1, IF offset + n < Len(rows) THEN offset + n ELSE Len(rows))

\* select from renewal_snapshots where subscription_id in (the rows' ids)
ExistingSnapshotKeys(rows) ==
    {k \in DOMAIN snapshots :
        /\ snapshots[k].exists
        /\ \E i \in 1..Len(rows) : SubscriptionId(rows[i]) = SubscriptionId(k)}

InSeq(x, seq) == \E i \in 1..Len(seq) : seq[i] = x

\* The loop over uniquePlanned: push the rows neither snapshotted nor selected
\* until batchSize rows are selected.
RECURSIVE SelectFrom(_, _, _, _)
SelectFrom(rows, existing, selected, batchSize) ==
    IF rows = <<>> THEN selected
    ELSE IF Head(rows) \in existing \/ InSeq(Head(rows), selected)
    THEN SelectFrom(Tail(rows), existing, selected, batchSize)
    ELSE IF Len(selected) + 1 >= batchSize THEN Append(selected, Head(rows))
    ELSE SelectFrom(Tail(rows), existing, Append(selected, Head(rows)), batchSize)

\* A scan that ends after its first chunk.
ScanEndsAfterChunk(chunkLen, selectedLen, batchSize) == TRUE

\* const scanChunk = Math.max(batchSize * 3, batchSize)
ScanChunk(batchSize) == IF batchSize * 3 > batchSize THEN batchSize * 3 ELSE batchSize

\* The scan ends: batchSize rows selected, or the chunk came back short.
ScanEnds(chunkLen, selectedLen, batchSize) ==
    selectedLen >= batchSize \/ chunkLen < ScanChunk(batchSize)

\* The source deal the rows of key k were enqueued from: two source deals,
\* each with several renewal terms.
SelSourceDeal(k) == (k % 2) + 1

IdleSelector ==
    [pc |-> "idle", batch |-> {}, batchSize |-> 1, filter |-> NoDeal, offset |-> 0,
     plannedRows |-> <<>>, selected |-> <<>>]

SelectorInit ==
    /\ \E P \in SUBSET SelKeys :
          ledger = [k \in SelKeys |->
                       IF k \in P
                       THEN [AbsentRow EXCEPT !.status = "planned",
                                              !.source_hubspot_deal_id = SelSourceDeal(k)]
                       ELSE AbsentRow]
    /\ snapshots \in [SelKeys -> {NoSnapshot, SnapshotOf(<<>>)}]
    /\ \A k \in SelKeys : ledger[k].status = "absent" => ~snapshots[k].exists
    /\ deals = <<>>
    /\ lineItems = <<>>
    /\ assoc = {}
    /\ run = [r \in Runs |-> IdleRun]
    /\ enq = IdleEnqueue
    /\ snap = IdleSelector
    /\ starts = 0
    /\ faults = 0
    /\ enqueues = 0
    /\ observed = <<>>
    /\ rowCount = [k \in SelKeys |-> IF ledger[k].status = "absent" THEN 0 ELSE 1]
    /\ audit = [r \in Runs |-> IdleAudit]

\* fetchPlannedRowsWithoutSnapshot(supabase, batchSize, sourceHubspotDealId)
SelectorCall(batchSize, filter) ==
    /\ snap.pc = "idle"
    /\ snap' = [IdleSelector EXCEPT !.batchSize = batchSize, !.filter = filter,
                   !.pc = IF filter # NoDeal THEN "filtered" ELSE "scan"]
    /\ UNCHANGED <<ledger, snapshots, deals, lineItems, assoc, run, enq, starts, faults, enqueues, observed, rowCount, audit>>

\* The filtered ledger query: the first batchSize planned rows of the source deal.
SelectorFilteredQuery ==
    /\ snap.pc = "filtered"
    /\ LET rows == RangeOf(PlannedOrdered(snap.filter), 0, snap.batchSize)
       IN  snap' = [snap EXCEPT !.plannedRows = rows,
                                !.pc = IF rows = <<>> THEN "returned" ELSE "filtered_lookup"]
    /\ UNCHANGED <<ledger, snapshots, deals, lineItems, assoc, run, enq, starts, faults, enqueues, observed, rowCount, audit>>

\* The filtered path's snapshot lookup and its return.
SelectorFilteredLookup ==
    /\ snap.pc = "filtered_lookup"
    /\ LET existing == ExistingSnapshotKeys(snap.plannedRows)
       IN  snap' = [snap EXCEPT
                       !.selected = SelectSeq(snap.plannedRows, LAMBDA k : k \notin existing),
                       !.pc = "returned"]
    /\ UNCHANGED <<ledger, snapshots, deals, lineItems, assoc, run, enq, starts, faults, enqueues, observed, rowCount, audit>>

\* The scan's ledger query of one chunk.
SelectorScan ==
    /\ snap.pc = "scan"
    /\ LET rows == RangeOf(PlannedOrdered(NoDeal), snap.offset, ScanChunk(snap.batchSize))
       IN  snap' = [snap EXCEPT !.plannedRows = rows,
                                !.pc = IF rows = <<>> THEN "returned" ELSE "lookup"]
    /\ UNCHANGED <<ledger, snapshots, deals, lineItems, assoc, run, enq, starts, faults, enqueues, observed, rowCount, audit>>

\* The scan's snapshot lookup for the chunk, the selection, and the next offset.
SelectorLookup ==
    /\ snap.pc = "lookup"
    /\ LET sel == SelectFrom(snap.plannedRows, ExistingSnapshotKeys(snap.plannedRows),
                             snap.selected, snap.batchSize)
       IN  snap' = [snap EXCEPT
                       !.selected = sel,
                       !.offset = IF ScanEnds(Len(snap.plannedRows), Len(sel), snap.batchSize)
                                  THEN @ ELSE @ + ScanChunk(snap.batchSize),
                       !.pc = IF ScanEnds(Len(snap.plannedRows), Len(sel), snap.batchSize)
                              THEN "returned" ELSE "scan"]
    /\ UNCHANGED <<ledger, snapshots, deals, lineItems, assoc, run, enq, starts, faults, enqueues, observed, rowCount, audit>>

\* Another snapshot run upserts the snapshot of key k while the selector runs.
ConcurrentSnapshotUpsert(k) ==
    /\ snap.pc \notin {"idle", "returned"}
    /\ Len(observed) < MaxChanges
    /\ ledger[k].status = "planned" /\ ~snapshots[k].exists
    /\ snapshots' = [snapshots EXCEPT ![k] = SnapshotOf(<<>>)]
    /\ observed' = Append(observed, <<"snapshot", k>>)
    /\ UNCHANGED <<ledger, deals, lineItems, assoc, run, enq, snap, starts, faults, enqueues, rowCount, audit>>

\* A plan run inserts key k while the selector runs.
ConcurrentPlanInsert(k) ==
    /\ snap.pc \notin {"idle", "returned"}
    /\ Len(observed) < MaxChanges
    /\ ~KeyConflict(k)
    /\ ledger' = [ledger EXCEPT ![k] = [AbsentRow EXCEPT !.status = "planned"]]
    /\ rowCount' = [rowCount EXCEPT ![k] = @ + 1]
    /\ observed' = Append(observed, <<"planned", k>>)
    /\ UNCHANGED <<snapshots, deals, lineItems, assoc, run, enq, snap, starts, faults, enqueues, audit>>

SelectorNext ==
    \/ \E b \in 1..MaxBatch, f \in {NoDeal} \cup (1..2) : SelectorCall(b, f)
    \/ SelectorFilteredQuery
    \/ SelectorFilteredLookup
    \/ SelectorScan
    \/ SelectorLookup
    \/ \E k \in SelKeys : ConcurrentSnapshotUpsert(k)
    \/ \E k \in SelKeys : ConcurrentPlanInsert(k)

SpecSelector == SelectorInit /\ [][SelectorNext]_vars

(* ------------------------------ claims -------------------------------- *)
\* Run r is between its successful claim of key k and its own write of the
\* row's outcome (created, released, error).
Processing(r, k) ==
    /\ run[r].pc \notin {"idle", "done"}
    /\ run[r].rowClaimed
    /\ CurKey(run[r]) = k

\* Run r executes its claim update in this step.
ClaimStep(r) == run[r].pc = "claim" /\ run'[r].lastWrite = "claim"

\* Run r executes the update of releaseLedgerForRetry in this step.
ReleaseStep(r) ==
    run[r].pc = "rel_write" /\ run'[r].lastWrite \in {"release", "release_unmatched"}

\* C1: at most one concurrent processor per ledger key: no two runs are both
\* between their own successful claim of a key and their own outcome for it.
C1_OneProcessorPerKey ==
    \A k \in Keys : \A r1, r2 \in Runs :
        Processing(r1, k) /\ Processing(r2, k) => r1 = r2

\* C2: no duplicate deals: at most one CRM deal is ever created for a ledger key.
C2_NoDuplicateDeals == \A k \in Keys : Cardinality(DealsOf(k)) <= 1

\* The claimers whose claim returned true, and those whose claim returned.
Winners == {r \in DOMAIN run : run[r].rowClaimed}

Attempted == {r \in DOMAIN run : run[r].lastWrite = "claim"}

\* C3: among the concurrent claims of one row, at most one returns true; when
\* the row was planned with a null deal id exactly one of the claims that
\* returned is true (the others false), and on any other row none is.
C3_ExactlyOneClaimWins ==
    /\ Cardinality(Winners) <= 1
    /\ Winners \subseteq Attempted
    /\ Attempted # {} =>
         IF observed[1].status = "planned" /\ observed[1].hubspot_deal_id = NoDeal
         THEN Cardinality(Winners) = 1
         ELSE Winners = {}

\* All claimers have claimed a planned row with null deal id: one won, the
\* others lost and counted the row as skipped.
C3_Witness ==
    /\ Attempted = Claimers
    /\ observed # <<>>
    /\ observed[1].status = "planned" /\ observed[1].hubspot_deal_id = NoDeal
    /\ Cardinality(Winners) = 1
    /\ \A r \in Claimers \ Winners : run[r].pc = "done" /\ run[r].skippedLocked = 1

\* The fingerprint of the charge run r is handling.
CurFingerprint(r) == Fingerprint(CurKey(run[r]), Head(run[r].charges))

\* C4: a materialize call creates a line item only for a charge whose
\* fingerprint no line item carries; a charge whose line item exists is found
\* by the search and counted as deduped; so after any sequence of materialize
\* calls the CRM holds at most one line item per fingerprint.
C4_NoAdditionalLineItems ==
    [][/\ \A r \in DOMAIN run :
            /\ Len(lineItems') > Len(lineItems) /\ run[r].pc = "li_create"
                 => ItemsWith(CurFingerprint(r)) = {}
            /\ run[r].pc = "li_search" /\ run'[r].pc = "li_create"
                 => ItemsWith(CurFingerprint(r)) = {}
            /\ run[r].pc = "li_search" /\ run'[r].pc = "li_assoc"
                 => /\ run'[r].lineItemId \in ItemsWith(CurFingerprint(r))
                    /\ run'[r].dedupedCount = run[r].dedupedCount + 1
                    /\ run'[r].createdCount = run[r].createdCount
       /\ \A i, j \in 1..Len(lineItems') : lineItems'[i] = lineItems'[j] => i = j]_vars

\* A first call created one charge's line item and failed on another; the
\* second call found the first (deduped) and created the remaining one.
C4_Witness ==
    /\ Len(observed) = 2
    /\ observed[1].createdCount = 1 /\ observed[1].errorCount >= 1
    /\ observed[2].dedupedCount >= 1 /\ observed[2].createdCount = 1
    /\ observed[2].errorCount = 0
    /\ Len(lineItems) = 2 /\ lineItems[1] # lineItems[2]

C6_ClaimContract ==
    [][\A r \in Runs : ClaimStep(r) =>
         LET k == CurKey(run[r])
         IN  IF ledger[k].status = "planned" /\ ledger[k].hubspot_deal_id = NoDeal
             THEN /\ run'[r].rowClaimed /\ run'[r].pc = "deal"
                  /\ ledger'[k] = [ledger[k] EXCEPT !.status = "processing"]
             ELSE /\ ~run'[r].rowClaimed
                  /\ run'[r].skippedLocked = run[r].skippedLocked + 1
                  /\ ledger'[k] = ledger[k]]_vars

\* A run claimed the row and a later claim of another run on it returned false.
C6_Witness ==
    \E r1, r2 \in Runs :
        /\ run[r1].pc = "deal" /\ run[r1].rowClaimed
        /\ run[r2].pc = "done" /\ run[r2].lastWrite = "claim" /\ run[r2].skippedLocked = 1
        /\ CurKey(run[r1]) = CurKey(run[r2])
        /\ ledger[CurKey(run[r1])].status = "processing"

\* C7: createdDealId is set exactly once: a non-null hubspot_deal_id is never
\* replaced by another id nor reset to null.
C7_DealIdSetOnce ==
    [][\A k \in Keys : ledger[k].hubspot_deal_id # NoDeal =>
                          ledger'[k].hubspot_deal_id = ledger[k].hubspot_deal_id]_vars

\* C8: a created row is never regressed to planned, processing or error.
C8_CreatedNeverRegressed ==
    [][\A k \in Keys : ledger[k].status = "created" => ledger'[k].status = "created"]_vars

\* C9: releaseForRetry moves a processing row to planned and leaves its deal id;
\* on a row that left processing it changes nothing (status, deal id, metadata).
C9_ReleaseOnlyIfProcessing ==
    [][\A r \in Runs : ReleaseStep(r) =>
         LET k == CurKey(run[r])
         IN  IF ledger[k].status = "processing"
             THEN /\ ledger'[k].status = "planned"
                  /\ ledger'[k].hubspot_deal_id = ledger[k].hubspot_deal_id
             ELSE ledger'[k] = ledger[k]]_vars

\* A run's release found the row already created: the row is created, and its
\* metadata carries no hubspot_error of the release.
C9_Witness ==
    \E r \in Runs :
        /\ run[r].pc = "done" /\ run[r].lastWrite = "release_unmatched"
        /\ ledger[CurKey(run[r])].status = "created"
        /\ ledger[CurKey(run[r])].metadata["hubspot_error"] = 0

\* C10: error rows are never auto-retried: a row in error is never claimed, no
\* create run creates a CRM deal for it, and its status stays error until an
\* enqueue call re-queues it to planned.
C10_ErrorRowsNotRetried ==
    [][\A k \in Keys : ledger[k].status = "error" =>
         /\ \A r \in Runs : ClaimStep(r) /\ CurKey(run[r]) = k => ~run'[r].rowClaimed
         /\ DealsOf(k)' = DealsOf(k)
         /\ \/ ledger'[k].status = "error"
            \/ /\ ledger'[k].status = "planned"
               /\ enq.pc = "upsert" /\ enq.key = k /\ enq'.pc = "done"]_vars

\* An enqueue call reads the ledger row of key k in this step (loadLedgerRow).
EnqueueLoadStep(k) == enqueues' = enqueues + 1 /\ enq'.key = k

\* The enqueue call's upsertManualQueueRow writes in this step, on the row as
\* the call read it.
EnqueueUpsertStep(k) ==
    /\ enq.pc = "upsert" /\ enq'.pc = "done" /\ faults' = faults /\ enq.key = k
    /\ ledger[k] = enq.existingLedger

\* A plan run's upsert writes in this step.
PlanStep == rowCount' # rowCount /\ enq' = enq

\* C11: planning a key again (plan run or manual enqueue) leaves exactly one
\* ledger row for it; a created row keeps its status; a row in error is
\* re-queued by the enqueue call: the call goes on to its upsert, which sets
\* the row to planned.
C11_PlanTwice ==
    [][\A k \in Keys :
         /\ rowCount'[k] <= 1
         /\ EnqueueUpsertStep(k) => rowCount'[k] = 1
         /\ (PlanStep \/ EnqueueUpsertStep(k) \/ EnqueueLoadStep(k)) /\ ledger[k].status = "created"
              => ledger'[k] = ledger[k]
         /\ EnqueueLoadStep(k) /\ ledger[k].status = "error" => enq'.pc # "done"
         /\ EnqueueUpsertStep(k) /\ ledger[k].status = "error"
              => ledger'[k].status = "planned"]_vars

\* C12: the ledger never holds two rows for the same (subscription_id,
\* term_end_date), whatever the interleaving of plan runs and enqueue calls,
\* and no ledger row is ever deleted.
C12_OneRowPerKey ==
    [][\A k \in Keys :
         /\ rowCount'[k] <= 1
         /\ rowCount'[k] >= rowCount[k]
         /\ ledger[k].status # "absent" => ledger'[k].status # "absent"]_vars

\* An enqueue call read no row for the key, a plan run inserted the row, and
\* the enqueue call's insert met the row: the table holds the plan run's row.
C12_Witness ==
    /\ enq.pc = "done" /\ enq.key \in Keys /\ faults = 0 /\ deals = <<>>
    /\ enq.existingLedger.status = "absent"
    /\ rowCount[enq.key] = 1
    /\ ledger[enq.key].status = "planned"
    /\ ledger[enq.key].metadata["manual_enqueue"] = 0

\* The enqueue call's upsertManualQueueRow updates the row of key k in this
\* step, having read it as planned or processing.
AlreadyQueuedStep(k) ==
    /\ enq.pc = "upsert" /\ enq'.pc = "done" /\ faults' = faults /\ enq.key = k
    /\ enq.existingLedger.status \in {"planned", "processing"}

\* C13 as stated: after upsertPlanned on an existing planned or processing
\* row the metadata is merged and the row's status is planned.
C13_StatusPlannedAfterUpsert ==
    [][\A k \in Keys : AlreadyQueuedStep(k) =>
         /\ ledger'[k].status = "planned"
         /\ ledger'[k].metadata = MergeMeta(enq.existingLedger.metadata, ManualPatch)]_vars

\* C13: upsertPlanned on an existing row read as planned or processing merges
\* the manual-enqueue metadata into the metadata it read and writes no status
\* and no deal id: a planned row stays planned, a processing row processing.
C13_StatusLeftByUpsert ==
    [][\A k \in Keys : AlreadyQueuedStep(k) =>
         /\ ledger'[k].status = ledger[k].status
         /\ ledger'[k].hubspot_deal_id = ledger[k].hubspot_deal_id
         /\ ledger'[k].metadata["manual_enqueue"] = 1
         /\ \A m \in MetaKeys \ {"manual_enqueue"} :
                ledger'[k].metadata[m] = enq.existingLedger.metadata[m]]_vars

\* An enqueue call has updated a row a create run holds in processing: the row
\* is still processing and carries the manual-enqueue metadata.
C13_Witness ==
    /\ enq.pc = "done" /\ enq.key \in Keys
    /\ enq.existingLedger.status = "processing"
    /\ ledger[enq.key].status = "processing"
    /\ ledger[enq.key].metadata["manual_enqueue"] = 1
    /\ \E r \in Runs : run[r].pc = "deal" /\ CurKey(run[r]) = enq.key

\* C14: the selector's output holds no key that has a SnapshotRecord and no
\* key twice, also when other runs write snapshots while it scans.
C14_SelectorOutputDue ==
    snap.pc = "returned" =>
        /\ \A i, j \in 1..Len(snap.selected) : snap.selected[i] = snap.selected[j] => i = j
        /\ \A i \in 1..Len(snap.selected) : ~snapshots[snap.selected[i]].exists

\* The planned keys without a snapshot, of the source deal when a filter is given.
DueKeys(filter) ==
    {k \in DOMAIN ledger :
        /\ ledger[k].status = "planned"
        /\ filter = NoDeal \/ ledger[k].source_hubspot_deal_id = filter
        /\ ~snapshots[k].exists}

\* C15: with no store change by other runs during the call, the unfiltered
\* selector returns exactly the first min(batchSize, D) of the D planned keys
\* without snapshot, in (term_end_date, subscription_id) order, however many
\* snapshotted planned keys precede them; with D = 0 it returns nothing.
C15_UnfilteredSelectsFirstDue ==
    (snap.pc = "returned" /\ snap.filter = NoDeal /\ observed = <<>>) =>
        snap.selected = RangeOf(SortKeys(DueKeys(NoDeal)), 0, snap.batchSize)

\* A scan that needed a second chunk to find its due key behind snapshotted ones.
C15_Witness ==
    /\ snap.pc = "returned" /\ snap.filter = NoDeal /\ observed = <<>>
    /\ snap.offset > 0
    /\ Len(snap.selected) = snap.batchSize
    /\ \E k \in DOMAIN ledger :
          /\ ledger[k].status = "planned" /\ snapshots[k].exists
          /\ KeyBefore(k, snap.selected[1])

\* C16: with a source filter and no store change by other runs during the call,
\* the selector returns every planned key of that source deal that has no
\* snapshot, whatever the number of matching planned keys relative to batchSize.
C16_FilteredReturnsAllDue ==
    (snap.pc = "returned" /\ snap.filter # NoDeal /\ observed = <<>>) =>
        {snap.selected[i] : i \in 1..Len(snap.selected)} = DueKeys(snap.filter)

\* The status the writer of run r expects on its row: processing once it has
\* claimed the row, else planned as the ready-row query returned it.
RunExpectedStatus(r) == IF run[r].rowClaimed THEN "processing" ELSE "planned"

\* Run r performs one of its ledger updates on key k in this step.
RunWrites(r, k) ==
    /\ run[r].pc \in {"claim", "mc_write", "me_write", "rel_write"}
    /\ run[r].rows # <<>> /\ CurKey(run[r]) = k
    /\ run'[r] # run[r]

\* The enqueue handler performs one of its ledger updates on key k in this
\* step; the status it expects is the one of the row it read before.
EnqueueWrites(k) ==
    /\ enq.pc \in {"mac_write", "upsert"} /\ enq.key = k /\ enq'.pc = "done"

EnqueueExpectedStatus ==
    IF enq.pc = "mac_write" THEN enq.existing.status ELSE enq.existingLedger.status

\* C17: every write that changes the status of an existing row takes effect
\* only on a row that still has the status its writer expects (the claim on
\* planned; markCreated, markError and release on the processing row the run
\* claimed; the enqueue updates on the status they read).
C17_StatusWritesConditional ==
    [][\A k \in Keys :
          (ledger[k].status # "absent" /\ ledger'[k].status # ledger[k].status) =>
              \/ \E r \in Runs : RunWrites(r, k) /\ ledger[k].status = RunExpectedStatus(r)
              \/ EnqueueWrites(k) /\ ledger[k].status = EnqueueExpectedStatus]_vars

(* ---------------------- a create run over a batch --------------------- *)
\* The ready-row query returns NumBatchKeys rows: each planned, with a snapshot.
BatchKeys == 1..NumBatchKeys

BatchInit ==
    /\ ledger = [k \in BatchKeys |->
                    [AbsentRow EXCEPT !.status = "planned",
                                      !.source_hubspot_deal_id = SourceDealOf(k)]]
    /\ snapshots = [k \in BatchKeys |-> SnapshotOf(BillingCharges(k))]
    /\ deals = <<>>
    /\ lineItems = <<>>
    /\ assoc = {}
    /\ run = [r \in Runs |-> IdleRun]
    /\ enq = IdleEnqueue
    /\ snap = [pc |-> "idle", batch |-> {}]
    /\ starts = 0
    /\ faults = 0
    /\ enqueues = 0
    /\ observed = <<>>
    /\ rowCount = [k \in BatchKeys |-> 1]
    /\ audit = [r \in Runs |-> IdleAudit]

BatchNext == \E r \in Runs : CreateRunStep(r)

SpecBatch == BatchInit /\ [][BatchNext]_vars

\* C18: a failure while one row is processed never ends the row loop: while a
\* run is in its loop every ready row is either answered in results or still
\* ahead, and a finished run holds exactly one result per ready row.
C18_OneResultPerReadyRow ==
    \A r \in Runs :
        /\ run[r].pc = "done" => run[r].results = run[r].processedCount
        /\ run[r].pc \notin {"idle", "done"} =>
               run[r].results + Len(run[r].rows) = run[r].processedCount

\* A finished run of two rows whose first row failed and whose second row
\* was created.
C18_Witness ==
    \E r \in Runs :
        /\ run[r].pc = "done" /\ run[r].processedCount = 2 /\ run[r].results = 2
        /\ run[r].errors = 1 /\ run[r].created = 1
        /\ ledger[CurKey(run[r])].status = "created"
        /\ run[r].lastWrite = "markCreated"

(* --------------------- a create run with its audit log ---------------- *)
\* A log write whose failure is thrown on to the handler's catch: answer 500.
AfterLogFailureThrows(a, next) ==
    [a EXCEPT !.lost = @ + 1, !.phase = "responded",
              !.response = [NoResponse EXCEPT !.status = 500]]

\* safeStartAutomationRun, safeInsertAutomationEvents, safeFinishAutomationRun:
\* the failure is written to the console and the handler goes on.
AfterLogFailure(a, next) == [a EXCEPT !.lost = @ + 1, !.phase = next]

\* runId = await safeStartAutomationRun(...): the id of the inserted row, or null.
AuditStart(r, ok) ==
    /\ audit[r].phase \in {"idle", "responded"}
    /\ run[r].pc \in {"idle", "done"}
    /\ starts < MaxStarts
    /\ audit' = [audit EXCEPT ![r] =
                    LET a == [IdleAudit EXCEPT !.startsAt = starts]
                    IN  IF ok
                        THEN [a EXCEPT !.runId = starts + 1, !.runRow = "running",
                                       !.phase = "started"]
                        ELSE AfterLogFailure(a, "started")]
    /\ UNCHANGED <<ledger, snapshots, deals, lineItems, assoc, run, enq, snap, starts, faults, enqueues, observed, rowCount>>

\* The ready-row query and the row loop of the invocation.
AuditedRunStep(r) ==
    /\ audit[r].phase = "started"
    /\ run[r].pc \in {"idle", "done"} => audit[r].startsAt = starts
    /\ CreateRunStep(r)

\* safeInsertAutomationEvents of the create_summary event.
AuditSummary(r, ok) ==
    /\ audit[r].phase = "started"
    /\ run[r].pc = "done" /\ starts = audit[r].startsAt + 1
    /\ audit' = [audit EXCEPT ![r] =
                    IF ok THEN [@ EXCEPT !.events = @ + 1, !.phase = "summary"]
                    ELSE AfterLogFailure(@, "summary")]
    /\ UNCHANGED <<ledger, snapshots, deals, lineItems, assoc, run, enq, snap, starts, faults, enqueues, observed, rowCount>>

\* safeFinishAutomationRun: no write when runId is null.
AuditFinish(r, ok) ==
    /\ audit[r].phase = "summary"
    /\ audit[r].runId = 0 => ok
    /\ audit' = [audit EXCEPT ![r] =
                    IF ~ok THEN AfterLogFailure(@, "finished")
                    ELSE IF @.runId = 0 THEN [@ EXCEPT !.phase = "finished"]
                    ELSE [@ EXCEPT !.phase = "finished",
                                   !.runRow = IF run[r].errors > 0 THEN "partial" ELSE "success"]]
    /\ UNCHANGED <<ledger, snapshots, deals, lineItems, assoc, run, enq, snap, starts, faults, enqueues, observed, rowCount>>

\* return jsonResponse(200, {processed, created, skipped_locked, errors, ...})
Respond(r) ==
    /\ audit[r].phase = "finished"
    /\ audit' = [audit EXCEPT ![r] =
                    [@ EXCEPT !.phase = "responded",
                              !.response = [status |-> 200,
                                            processed |-> run[r].processedCount,
                                            created |-> run[r].created,
                                            skipped_locked |-> run[r].skippedLocked,
                                            errors |-> run[r].errors]]]
    /\ UNCHANGED <<ledger, snapshots, deals, lineItems, assoc, run, enq, snap, starts, faults, enqueues, observed, rowCount>>

AuditNext ==
    \E r \in FirstRun :
        \/ \E ok \in BOOLEAN : AuditStart(r, ok)
        \/ AuditedRunStep(r)
        \/ \E ok \in BOOLEAN : AuditSummary(r, ok)
        \/ \E ok \in BOOLEAN : AuditFinish(r, ok)
        \/ Respond(r)

SpecAudit == BatchInit /\ [][AuditNext]_vars

\* C19: a failed audit-log write changes nothing but the log: the steps of the
\* log writes leave ledger, snapshots and CRM as they are, and whatever log
\* writes failed, the invocation answers 200 with the counts of its row loop,
\* which ran over every ready row.
C19_AuditBestEffort ==
    /\ [](\A r \in Runs :
             audit[r].phase = "responded" =>
                 /\ audit[r].response = [status |-> 200,
                                         processed |-> run[r].processedCount,
                                         created |-> run[r].created,
                                         skipped_locked |-> run[r].skippedLocked,
                                         errors |-> run[r].errors]
                 /\ run[r].pc = "done" /\ starts = audit[r].startsAt + 1
                 /\ run[r].results = run[r].processedCount)
    /\ [][audit' # audit =>
             UNCHANGED <<ledger, snapshots, deals, lineItems, assoc, run>>]_vars

\* An invocation whose run-start insert and whose
\* summary insert both failed, and which created a deal and answered.
C19_Witness ==
    \E r \in Runs :
        /\ audit[r].phase = "responded" /\ audit[r].lost = 2 /\ audit[r].runId = 0
        /\ audit[r].response.created >= 1
        /\ \E k \in DOMAIN ledger : ledger[k].status = "created"

\* The snapshot of the row in hand holds exactly two charges, both eligible and
\* buildable, with the same non-empty chargeId.
TwoChargesSameChargeId ==
    \E r \in DOMAIN run :
        /\ run[r].rows # <<>>
        /\ LET cs == Head(run[r].rows)[2]
           IN  /\ Len(cs) = 2
               /\ \A i \in 1..2 : isRecurringAndNotCancelled(cs[i]) /\ ~LocalError(cs[i])
               /\ cs[1].chargeId # <<>> /\ cs[1].chargeId = cs[2].chargeId

\* ... and with the same id (order charge id) as well.
TwoChargesSameChargeAndOrderId ==
    /\ TwoChargesSameChargeId
    /\ \E r \in DOMAIN run :
          LET cs == Head(run[r].rows)[2] IN cs[1].id = cs[2].id

\* The two charges of the row in hand have the same fingerprint.
SameFingerprints ==
    \A r \in DOMAIN run :
        LET cs == Head(run[r].rows)[2]
        IN  Fingerprint(CurKey(run[r]), cs[1]) = Fingerprint(CurKey(run[r]), cs[2])

FingerprintCharges ==
    { Charge(<<"c1">>, <<"o1">>, <<"n1">>, TRUE, TRUE),
      Charge(<<"c1">>, <<"o5">>, <<"n1">>, TRUE, TRUE),
      Charge(<<"c2">>, <<"o1">>, <<"n2">>, TRUE, TRUE),
      Charge(<<>>, <<"o1">>, <<"n1">>, TRUE, TRUE),
      Charge(<<"c1">>, <<>>, <<"n1">>, TRUE, TRUE),
      Charge(<<"c1">>, <<"no-order-charge-id">>, <<"n1">>, TRUE, TRUE),
      Charge(<<"c1", ":", "o1">>, <<"o5">>, <<"n1">>, TRUE, TRUE),
      Charge(<<"c1">>, <<"o1", ":", "o5">>, <<"n1">>, TRUE, TRUE) }

\* What one pass of the charge loop computes for charge c of ledger key k.
FingerprintRecord(k, c, dealId) ==
    [subscription_id |-> SubscriptionId(k), term_end_date |-> TermEndDate(k),
     chargeIdentifier |-> ChargeIdentifier(c), orderChargeIdentifier |-> c.id,
     createdDealId |-> dealId, fingerprint |-> Fingerprint(k, c)]

FingerprintInit ==
    /\ ledger = [k \in BatchKeys |-> [AbsentRow EXCEPT !.status = "processing"]]
    /\ snapshots = [k \in BatchKeys |-> NoSnapshot]
    /\ deals = <<>>
    /\ lineItems = <<>>
    /\ assoc = {}
    /\ run = [r \in Runs |-> IdleRun]
    /\ enq = IdleEnqueue
    /\ snap = [pc |-> "idle", batch |-> {}]
    /\ starts = 0
    /\ faults = 0
    /\ enqueues = 0
    /\ observed = <<>>
    /\ rowCount = [k \in BatchKeys |-> 1]
    /\ audit = [r \in Runs |-> IdleAudit]

\* The charge loop computes the fingerprint of charge c for the row of key k,
\* in a call made for deal dealId.
ComputeFingerprint(k, c, dealId) ==
    /\ Len(observed) < MaxFingerprints
    /\ ~LocalError(c)
    /\ observed' = Append(observed, FingerprintRecord(k, c, dealId))
    /\ UNCHANGED <<ledger, snapshots, deals, lineItems, assoc, run, enq, snap, starts, faults, enqueues, rowCount, audit>>

FingerprintNext ==
    \E k \in BatchKeys, c \in FingerprintCharges, d \in 1..MaxDeals : ComputeFingerprint(k, c, d)

SpecFingerprint == FingerprintInit /\ [][FingerprintNext]_vars

\* The parts the fingerprint is made of.
FingerprintParts(rec) ==
    <<rec.subscription_id, rec.term_end_date, rec.chargeIdentifier, rec.orderChargeIdentifier>>

\* C21: two charge lines have the same fingerprint exactly when they have the
\* same (subscription_id, term_end_date, charge identifier, order-charge
\* identifier), whatever the deal and the call; so line items of different
\* ledger entries never share a fingerprint.
C21_FingerprintIffSameParts ==
    \A i, j \in 1..Len(observed) :
        (observed[i].fingerprint = observed[j].fingerprint)
            <=> (FingerprintParts(observed[i]) = FingerprintParts(observed[j]))

\* The keys of seq are in ascending (term_end_date, subscription_id) order.
Ascending(seq) == \A i, j \in 1..Len(seq) : i < j => KeyBefore(seq[i], seq[j])

\* The batch a snapshot run got from its selector is in ascending order.
SnapshotBatchOrdered == snap.pc = "returned" => Ascending(snap.selected)

\* C22: the rows a create run has still to process, the row in hand first, are
\* in ascending (term_end_date, subscription_id) order, also among rows with
\* the same term_end_date.
C22_CreateRunOrder ==
    \A r \in Runs :
        run[r].pc \notin {"idle", "done"} =>
            Ascending([i \in 1..Len(run[r].rows) |-> run[r].rows[i][1]])

(* --------------------- a snapshot run's batch loop -------------------- *)
RunKeys == 1..NumRunKeys

\* fetchPlannedRowsWithoutSnapshot without a source filter, run to its return:
\* the scan from offset on, with the rows selected so far.
RECURSIVE ScanFrom(_, _, _)
ScanFrom(offset, selected, batchSize) ==
    LET rows == RangeOf(PlannedOrdered(NoDeal), offset, ScanChunk(batchSize))
    IN  IF rows = <<>> THEN selected
        ELSE LET sel == SelectFrom(rows, ExistingSnapshotKeys(rows), selected, batchSize)
             IN  IF ScanEnds(Len(rows), Len(sel), batchSize) THEN sel
                 ELSE ScanFrom(offset + ScanChunk(batchSize), sel, batchSize)

\* fetchPlannedRowsWithoutSnapshot(supabase, batchSize, sourceHubspotDealId)
LedgerBatch(batchSize, filter) ==
    IF filter # NoDeal
    THEN LET rows == RangeOf(PlannedOrdered(filter), 0, batchSize)
         IN  SelectSeq(rows, LAMBDA k : k \notin ExistingSnapshotKeys(rows))
    ELSE ScanFrom(0, <<>>, batchSize)

\* The handler's counters and its position in the loop.
IdleSnapshotRun ==
    [pc |-> "idle", batch |-> <<>>, batchSize |-> 1, maxBatches |-> 1, filter |-> NoDeal,
     batchesProcessed |-> 0, processedRowsTotal |-> 0, snapshotsUpsertedTotal |-> 0,
     errorsTotal |-> 0, fetchedBatchCount |-> 0, stop |-> "none"]

SnapshotRunInit ==
    /\ \E P \in SUBSET RunKeys :
          ledger = [k \in RunKeys |->
                       IF k \in P
                       THEN [AbsentRow EXCEPT !.status = "planned",
                                              !.source_hubspot_deal_id = SelSourceDeal(k)]
                       ELSE AbsentRow]
    /\ snapshots \in [RunKeys -> {NoSnapshot, SnapshotOf(<<>>)}]
    /\ \A k \in RunKeys : ledger[k].status = "absent" => ~snapshots[k].exists
    /\ deals = <<>>
    /\ lineItems = <<>>
    /\ assoc = {}
    /\ run = [r \in Runs |-> IdleRun]
    /\ enq = IdleEnqueue
    /\ snap = IdleSnapshotRun
    /\ starts = 0
    /\ faults = 0
    /\ enqueues = 0
    /\ observed = <<>>
    /\ rowCount = [k \in RunKeys |-> IF ledger[k].status = "absent" THEN 0 ELSE 1]
    /\ audit = [r \in Runs |-> IdleAudit]

\* loadConfig and getRequestOptions: BATCH_SIZE, MAX_BATCHES, source_hubspot_deal_id.
SnapshotRunStart(batchSize, maxBatches, filter) ==
    /\ snap.pc = "idle"
    /\ snap' = [IdleSnapshotRun EXCEPT !.batchSize = batchSize, !.maxBatches = maxBatches,
                                       !.filter = filter, !.pc = "select"]
    /\ UNCHANGED <<ledger, snapshots, deals, lineItems, assoc, run, enq, starts, faults, enqueues, observed, rowCount, audit>>

\* A loop that goes on whatever the number of batches done.
LoopContinuesAlways(s) == TRUE

\* while (batchesProcessed < config.maxBatches)
LoopContinues(s) == s.batchesProcessed < s.maxBatches

\* The loop test and the selector call: leave on the batch limit or on an
\* empty batch, else count the batch.
SnapshotRunSelect ==
    /\ snap.pc = "select"
    /\ LET batch == LedgerBatch(snap.batchSize, snap.filter)
       IN  snap' = IF ~LoopContinues(snap)
                   THEN [snap EXCEPT !.pc = "finished", !.stop = "max_batches"]
                   ELSE IF batch = <<>>
                   THEN [snap EXCEPT !.pc = "finished", !.stop = "empty",
                                     !.batch = <<>>, !.fetchedBatchCount = 0]
                   ELSE [snap EXCEPT !.pc = "process", !.batch = batch,
                                     !.fetchedBatchCount = Len(batch),
                                     !.batchesProcessed = @ + 1,
                                     !.processedRowsTotal = @ + Len(batch)]
    /\ UNCHANGED <<ledger, snapshots, deals, lineItems, assoc, run, enq, starts, faults, enqueues, observed, rowCount, audit>>

\* The rows of the batch: an error for each row whose subscription, order id
\* or charges cannot be had, a snapshot row for each other; the upsert; then
\* the two tests at the loop's end.
SnapshotRunProcessWith(done) ==
    /\ snap.pc = "process"
    /\ done \subseteq {snap.batch[i] : i \in 1..Len(snap.batch)}
    /\ snapshots' = [k \in DOMAIN snapshots |->
                              IF k \in done THEN SnapshotOf(<<>>) ELSE snapshots[k]]
    /\ snap' = [snap EXCEPT
                         !.errorsTotal = @ + (Len(snap.batch) - Cardinality(done)),
                         !.snapshotsUpsertedTotal = @ + Cardinality(done),
                         !.pc = IF snap.fetchedBatchCount < snap.batchSize
                                   \/ snap.filter # NoDeal
                                THEN "finished" ELSE "select",
                         !.stop = IF snap.fetchedBatchCount < snap.batchSize THEN "short"
                                  ELSE IF snap.filter # NoDeal THEN "filtered" ELSE "none"]
    /\ UNCHANGED <<ledger, deals, lineItems, assoc, run, enq, starts, faults, enqueues, observed, rowCount, audit>>

\* The rows whose charges are had are any of the batch.
SnapshotRunProcess ==
    \E done \in SUBSET {snap.batch[i] : i \in 1..Len(snap.batch)} : SnapshotRunProcessWith(done)

\* A ledger, subscription or snapshot store call fails: the handler answers 500.
SnapshotRunFails ==
    /\ snap.pc \in {"select", "process"}
    /\ faults < MaxFaults
    /\ faults' = faults + 1
    /\ snap' = [snap EXCEPT !.pc = "finished", !.stop = "failed"]
    /\ UNCHANGED <<ledger, snapshots, deals, lineItems, assoc, run, enq, starts, enqueues, observed, rowCount, audit>>

SnapshotRunStep == SnapshotRunSelect \/ SnapshotRunProcess \/ SnapshotRunFails

SnapshotRunNext ==
    \/ \E b \in 1..MaxBatch, m \in 1..MaxBatches, f \in {NoDeal} \cup (1..2) :
          SnapshotRunStart(b, m, f)
    \/ SnapshotRunSelect
    \/ SnapshotRunProcess
    \/ SnapshotRunFails
    \/ \E k \in RunKeys : ConcurrentPlanInsert(k)

\* Every awaited call of the handler returns or throws.
SpecSnapshotRun ==
    SnapshotRunInit /\ [][SnapshotRunNext]_vars /\ WF_vars(SnapshotRunStep)

\* C23: a snapshot run never counts more than maxBatches batches; it goes back
\* to the selector only after a full batch of a run without source filter; it
\* leaves the loop on an empty batch, on a batch shorter than batchSize, after
\* the one batch of a filtered run, or at maxBatches; and it terminates.
C23_SnapshotRunBounded ==
    /\ [](/\ snap.batchesProcessed <= snap.maxBatches
          /\ (snap.pc = "select" /\ snap.batchesProcessed > 0) =>
                 (snap.fetchedBatchCount = snap.batchSize /\ snap.filter = NoDeal)
          /\ snap.filter # NoDeal => snap.batchesProcessed <= 1
          /\ snap.stop = "max_batches" => snap.batchesProcessed = snap.maxBatches
          /\ snap.stop = "empty" => snap.fetchedBatchCount = 0
          /\ snap.stop = "short" => snap.fetchedBatchCount < snap.batchSize)
    /\ (snap.pc = "select" ~> snap.pc = "finished")

\* A run stopped by maxBatches after two full batches while a planned row
\* without snapshot is left.
C23_Witness ==
    /\ snap.pc = "finished" /\ snap.stop = "max_batches"
    /\ snap.batchesProcessed = 2 /\ snap.maxBatches = 2
    /\ \E k \in DOMAIN ledger : ledger[k].status = "planned" /\ ~snapshots[k].exists

\* A CRM call of run r fails (non-2xx answer or thrown request) while the run
\* holds its claimed row.
TransportFailureStep(r) ==
    /\ run[r].rowClaimed
    /\ \/ CreateDealRejected(r) \/ CreateDealThrows(r)
       \/ SearchLineItemFails(r) \/ CreateLineItemFails(r) \/ AssociateLineItemFails(r)
       \/ UpdateAmountFails(r)

\* C24: whenever a CRM call fails while a create run holds a claimed row, the
\* run turns to releasing the row to planned.
C24_TransportFailureReleases ==
    [][\A r \in Runs : TransportFailureStep(r) => run'[r].pc = "rel_read"]_vars

\* Run r is in markLedgerError for a row it has not claimed: the call made
\* when the source deal answered 404.
InNotFoundMarkError(r) == run[r].pc \in {"me_read", "me_write"} /\ ~run[r].rowClaimed

CapsInit ==
    /\ ledger = [j \in Keys |-> [AbsentRow EXCEPT !.status = "processing"]]
    /\ snapshots = [j \in Keys |-> NoSnapshot]
    /\ deals = <<>>
    /\ lineItems = <<>>
    /\ assoc = {}
    /\ run = [r \in FirstRun |->
                 [IdleRun EXCEPT !.pc = "li_loop", !.processedCount = 1,
                                 !.createLineItems = TRUE, !.rowClaimed = TRUE]]
    /\ enq = IdleEnqueue
    /\ snap = [pc |-> "idle", batch |-> {}]
    /\ starts = 0
    /\ faults = 0
    /\ enqueues = 0
    /\ observed = <<>>
    /\ rowCount = [j \in Keys |-> 1]
    /\ audit = [r \in Runs |-> IdleAudit]

\* A charge without identifier, a failed build, or a failed search, create or
\* associate call: pushError.
CapsChargeError(r) ==
    /\ run[r].pc = "li_loop"
    /\ starts < MaxCapCharges
    /\ starts' = starts + 1
    /\ faults' = faults + 1
    /\ run' = [run EXCEPT ![r] = PushError(@)]
    /\ UNCHANGED <<ledger, snapshots, deals, lineItems, assoc, enq, snap, enqueues, observed, rowCount, audit>>

\* pushLineItemId(lineItemId) after the association.
CapsPushLineItemId(s, id) ==
    [s EXCEPT !.lineItemIds = PushCappedLineItemId(s.associatedLineItemIds, @, id),
              !.associatedLineItemIds = PushLineItemId(@, id)]

\* The search finds nothing, the line item is created (the CRM gives it a new
\* id) and associated.
CapsLineItemCreated(r) ==
    /\ run[r].pc = "li_loop"
    /\ starts < MaxCapCharges
    /\ starts' = starts + 1
    /\ run' = [run EXCEPT ![r] =
                  CapsPushLineItemId([@ EXCEPT !.createdCount = @ + 1],
                                     Len(run[r].associatedLineItemIds) + 1)]
    /\ UNCHANGED <<ledger, snapshots, deals, lineItems, assoc, enq, snap, faults, enqueues, observed, rowCount, audit>>

\* The search finds a line item and it is associated: one this call has
\* associated already (the first stands for any of them), or another one.
CapsLineItemFound(r) ==
    /\ run[r].pc = "li_loop"
    /\ starts < MaxCapCharges
    /\ starts' = starts + 1
    /\ \E id \in {1, Len(run[r].associatedLineItemIds) + 1} :
         run' = [run EXCEPT ![r] =
                    CapsPushLineItemId([@ EXCEPT !.dedupedCount = @ + 1], id)]
    /\ UNCHANGED <<ledger, snapshots, deals, lineItems, assoc, enq, snap, faults, enqueues, observed, rowCount, audit>>

\* After the last charge the handler updates the deal amount when line items
\* were associated; its catch counts one more error and keeps the message
\* under the same cap.
CapsAmountError(r) ==
    /\ run[r].pc = "li_loop"
    /\ run[r].associatedLineItemIds # <<>>
    /\ starts < MaxCapCharges
    /\ starts' = starts + 1
    /\ faults' = faults + 1
    /\ run' = [run EXCEPT ![r] = PushError([@ EXCEPT !.pc = "mc_read"])]
    /\ UNCHANGED <<ledger, snapshots, deals, lineItems, assoc, enq, snap, enqueues, observed, rowCount, audit>>

\* After the last charge, the amount updated or nothing to update.
CapsReturn(r) ==
    /\ run[r].pc = "li_loop"
    /\ run' = [run EXCEPT ![r] = [@ EXCEPT !.pc = "mc_read"]]
    /\ UNCHANGED <<ledger, snapshots, deals, lineItems, assoc, enq, snap, starts, faults, enqueues, observed, rowCount, audit>>

CapsNext ==
    \E r \in FirstRun :
        \/ CapsChargeError(r)
        \/ CapsLineItemCreated(r)
        \/ CapsLineItemFound(r)
        \/ CapsAmountError(r)
        \/ CapsReturn(r)

SpecCaps == CapsInit /\ [][CapsNext]_vars

RowCharges(s) == EligibleCharges(Head(s.rows)[2])

ChargesDone(s) == Len(RowCharges(s)) - Len(s.charges)

LocalErrorsAmong(cs, n) == Cardinality({j \in 1..n : LocalError(cs[j])})

\* C27: in a processLineItemsForRow call every eligible charge is taken in
\* turn; one with a missing or unmappable required field and one whose
\* search, create or associate call fails counts a per-charge error and the
\* loop goes on with the next charge, so the call returns only after the last
\* eligible charge, with at least one tally per charge.
C27_ChargeErrorsSkip ==
    \A r \in DOMAIN run :
        LET s == run[r]
            E == RowCharges(s)
            done == ChargesDone(s)
        IN  (s.pc # "returned" \/ observed # <<>>) =>
              /\ done >= 0
              /\ s.charges = SubSeq(E, done + 1, Len(E))
              /\ s.pc \in {"amount", "mc_read", "returned"} => done = Len(E)
              /\ s.pc \in {"li_search", "li_create", "li_assoc"} =>
                    s.charges # <<>> /\ ~LocalError(Head(s.charges))
              /\ s.errorCount >= LocalErrorsAmong(E, done)
              /\ s.errorCount <= done
              /\ s.errorCount - LocalErrorsAmong(E, done) <= faults
              /\ s.createdCount + s.dedupedCount + s.errorCount >= done
              /\ Len(s.errorSamples) = s.errorCount

C27_Witness ==
    \E r \in DOMAIN run :
        LET s == run[r]
            E == RowCharges(s)
        IN  /\ s.pc = "returned" /\ Len(observed) = 1
            /\ Len(E) = 3
            /\ LocalError(E[1]) /\ ~LocalError(E[2]) /\ ~LocalError(E[3])
            /\ Fingerprint(CurKey(s), E[2]) # Fingerprint(CurKey(s), E[3])
            /\ s.errorCount = 2
            /\ Len(s.associatedLineItemIds) = 1
            /\ lineItems[s.associatedLineItemIds[1]] = Fingerprint(CurKey(s), E[3])

\* C28: ledger metadata is append-only: whatever writes of concurrent runs
\* interleave, a metadata key present on a row is still present after every
\* later write to the row.
C28_MetadataAppendOnly ==
    [][\A k \in DOMAIN ledger : \A m \in MetaKeys :
          ledger[k].metadata[m] # 0 => ledger'[k].metadata[m] # 0]_vars

\* The transitions of the ledger lifecycle: claim, markCreated, release,
\* markError, and the re-queue of an error row.
LifecycleTransition(from, to) ==
    \/ from = "planned" /\ to = "processing"
    \/ from = "processing" /\ to = "created"
    \/ from = "processing" /\ to = "planned"
    \/ to = "error"
    \/ from = "error" /\ to = "planned"

\* C29: every change of the status of an existing ledger row is a lifecycle
\* transition; in particular a row becomes created only from processing.
C29_LifecycleTransitionsOnly ==
    [][\A k \in DOMAIN ledger :
          (ledger[k].status # "absent" /\ ledger'[k].status # ledger[k].status)
              => LifecycleTransition(ledger[k].status, ledger'[k].status)]_vars

\* Run r is at work on a row it has claimed and holds the id of the deal it
\* created for it.
HoldsDealId(r) ==
    /\ run[r].pc \notin {"idle", "done"}
    /\ run[r].rowClaimed
    /\ run[r].createdDealIdForRow # NoDeal

\* The step pushes the row's result.
RowFinished(r) == run'[r].results = run[r].results + 1

\* The step leaves the row created with the run's deal id, or error with the
\* deal id under created_deal_id in its metadata.
EndsCreatedOrError(r) ==
    LET k == CurKey(run[r])
        d == run[r].createdDealIdForRow
    IN  \/ ledger'[k].status = "created" /\ ledger'[k].hubspot_deal_id = d
        \/ ledger'[k].status = "error" /\ ledger'[k].metadata["created_deal_id"] = d

\* The run is in releaseLedgerForRetry.
InRelease(r) == run[r].pc \in {"rel_read", "rel_write"}

\* C30 as stated: a run that holds a deal id for its claimed row never
\* releases the row, and when it ends the row the row is created with that
\* deal id or error with the deal id as created_deal_id; a release is made
\* only without a deal id.
C30_DealIdEndsCreatedOrError ==
    [][\A r \in Runs :
          /\ (HoldsDealId(r) /\ run'[r] # run[r]) =>
                 /\ ~InRelease(r) /\ ~InRelease(r)'
                 /\ RowFinished(r) => EndsCreatedOrError(r)
          /\ Release(r) => run[r].createdDealIdForRow = NoDeal]_vars

\* C30, amended: a run that holds a deal id for its claimed row never releases
\* the row; when it ends the row, the row is created with that deal id, or
\* error with the deal id as created_deal_id, or, when the ledger call it
\* ended on failed as well, the run has written nothing and the row is left
\* as it was; a release is made only without a deal id.
C30_DealIdNeverReleased ==
    [][\A r \in Runs :
          /\ (HoldsDealId(r) /\ run'[r] # run[r]) =>
                 /\ ~InRelease(r) /\ ~InRelease(r)'
                 /\ RowFinished(r) =>
                        \/ EndsCreatedOrError(r)
                        \/ faults' = faults + 1 /\ ledger' = ledger /\ run[r].inCatch
          /\ Release(r) => run[r].createdDealIdForRow = NoDeal]_vars

\* A run that created a deal, failed afterwards, and ended its row as error
\* with created_deal_id recorded.
C30_Witness ==
    \E r \in Runs :
        /\ run[r].pc = "done" /\ run[r].results = 1 /\ run[r].errors = 1
        /\ run[r].rowClaimed /\ run[r].createdDealIdForRow # NoDeal
        /\ run[r].lastWrite = "markError"
        /\ faults > 0
        /\ ledger[CurKey(run[r])].status = "error"
        /\ ledger[CurKey(run[r])].metadata["created_deal_id"] = run[r].createdDealIdForRow
        /\ ledger[CurKey(run[r])].hubspot_deal_id = NoDeal

(* ------------------------- crashed invocations ------------------------ *)
\* The platform ends an invocation of the create function in the middle of a
\* row (time limit, out of memory): nothing of the handler runs afterwards,
\* not even the row's catch.  What is kept of its record tells which row it
\* had in hand and whether it had claimed it.
Crash(r) ==
    /\ run[r].pc \notin {"idle", "done", "crashed"}
    /\ run' = [run EXCEPT ![r] =
                  [IdleRun EXCEPT !.pc = "crashed", !.rows = <<Head(run[r].rows)>>,
                                  !.rowClaimed = run[r].rowClaimed]]
    /\ UNCHANGED <<ledger, snapshots, deals, lineItems, assoc, enq, snap, starts, faults, enqueues, observed, rowCount, audit>>

CrashNext == Next \/ \E r \in Runs : Crash(r)

SpecCrash == Init /\ [][CrashNext]_vars

\* Row k was claimed by an invocation that crashed.
LeftByCrashedRun(k) ==
    \E r \in Runs : run[r].pc = "crashed" /\ run[r].rowClaimed /\ CurKey(run[r]) = k

\* C31: a row left in processing by a crashed run stays processing: no step
\* of a create run, a plan run or an enqueue call changes its status.
C31_CrashedRowStaysProcessing ==
    [][\A k \in Keys :
          (LeftByCrashedRun(k) /\ ledger[k].status = "processing")
              => ledger'[k].status = "processing"]_vars

\* Every eligible charge of the row a run has in hand has a line item with
\* its fingerprint associated with the deal the run created.
AllChargesMaterialized(r) ==
    LET cs == RowCharges(run[r])
    IN  \A j \in 1..Len(cs) :
          \E id \in ItemsWith(Fingerprint(CurKey(run[r]), cs[j])) :
              <<run[r].createdDealIdForRow, id>> \in assoc

\* C32: when a create run with create_line_items marks a row created, every
\* eligible charge of the row's snapshot has a line item associated with the
\* created deal.
C32_CreatedMeansAllLineItems ==
    [][\A r \in Runs :
          (MarkCreated(r) /\ run[r].createLineItems) => AllChargesMaterialized(r)]_vars

(* ------------------- repeated create runs, fairly run ------------------ *)
\* One planned row with its snapshot and create invocations (not dry runs)
\* starting again and again; of the calls only MaxFaults fail, so failures
\* cease, and no invocation is ended from outside.
LiveInit ==
    /\ ledger = [k \in Keys |-> [AbsentRow EXCEPT !.status = "planned"]]
    /\ snapshots = [k \in Keys |-> SnapshotOf(BillingCharges(k))]
    /\ deals = <<>>
    /\ lineItems = <<>>
    /\ assoc = {}
    /\ run = [r \in Runs |-> IdleRun]
    /\ enq = IdleEnqueue
    /\ snap = [pc |-> "idle", batch |-> {}]
    /\ starts = 0
    /\ faults = 0
    /\ enqueues = 0
    /\ observed = <<>>
    /\ rowCount = [k \in Keys |-> 1]
    /\ audit = [r \in Runs |-> IdleAudit]

\* The next invocation of the schedule: the ready-row query, no dry run.
LiveStartRun(r) ==
    /\ run[r].pc \in {"idle", "done"}
    /\ \E li \in BOOLEAN, order \in Orders(ReadyKeys) :
         LET s == [IdleRun EXCEPT !.createLineItems = li,
                                  !.rows = ReadyRowsOf(order),
                                  !.processedCount = Len(order)]
         IN  run' = [run EXCEPT ![r] =
                        [s EXCEPT !.pc = IF s.rows = <<>> THEN "done" ELSE "fetch"]]
    /\ UNCHANGED <<ledger, snapshots, deals, lineItems, assoc, enq, snap, starts, faults, enqueues, observed, rowCount, audit>>

\* The steps of an invocation on its rows.
RowStep(r) ==
    \/ FetchSourceDeal(r) \/ FetchSourceDealNotFound(r) \/ FetchSourceDealFails(r)
    \/ Claim(r) \/ ClaimFails(r)
    \/ CreateDeal(r) \/ CreateDealRejected(r) \/ CreateDealMissingId(r) \/ CreateDealThrows(r)
    \/ SearchLineItem(r) \/ SearchLineItemFails(r)
    \/ CreateLineItem(r) \/ CreateLineItemFails(r)
    \/ AssociateLineItem(r) \/ AssociateLineItemFails(r)
    \/ UpdateAmount(r) \/ UpdateAmountFails(r)
    \/ ReadLedgerMetadata(r) \/ ReadLedgerMetadataFails(r)
    \/ MarkCreated(r) \/ MarkCreatedFails(r)
    \/ MarkError(r) \/ MarkErrorFails(r)
    \/ Release(r) \/ ReleaseFails(r)

LiveRunStep(r) == LiveStartRun(r) \/ RowStep(r)

LiveNext == \E r \in Runs : LiveRunStep(r)

SpecLive == LiveInit /\ [][LiveNext]_vars /\ \A r \in Runs : WF_vars(LiveRunStep(r))

\* C33: with create runs repeated fairly, no crash, and failures ceasing, a
\* row that is planned and has a snapshot eventually is created or error
\* (the model's bound on the number of CRM deals set aside).
C33_PlannedEventuallySettled ==
    \A k \in Keys :
        (ledger[k].status = "planned" /\ snapshots[k].exists)
            ~> (ledger[k].status \in {"created", "error"} \/ Len(deals) >= MaxDeals)

\* C34: in every reachable state a ledger row is created if and only if its
\* hubspot_deal_id is set.
C34_CreatedIffDealId ==
    \A k \in DOMAIN ledger :
        ledger[k].status # "absent" =>
            (ledger[k].status = "created" <=> ledger[k].hubspot_deal_id # NoDeal)

\* C35: when a create run ends a row it claimed, the row is not left in
\* processing, whether or not a ledger call of the outcome failed.
C35_ClaimedRowNotLeftProcessing ==
    [][\A r \in Runs :
          (run[r].pc \notin {"idle", "done"} /\ run[r].rowClaimed /\ RowFinished(r))
              => ledger'[CurKey(run[r])].status # "processing"]_vars

(* ---------------- repeated snapshot runs, fairly run ------------------- *)
\* Snapshot runs without source filter, one after the other, under one
\* configuration.  observed holds what does not change between the runs:
\* the keys whose subscription, order id and charges can be had, BATCH_SIZE
\* and MAX_BATCHES.
SnapshotLiveInit ==
    /\ \E P \in SUBSET RunKeys :
          ledger = [k \in RunKeys |->
                       IF k \in P
                       THEN [AbsentRow EXCEPT !.status = "planned",
                                              !.source_hubspot_deal_id = SelSourceDeal(k)]
                       ELSE AbsentRow]
    /\ snapshots = [k \in RunKeys |-> NoSnapshot]
    /\ deals = <<>>
    /\ lineItems = <<>>
    /\ assoc = {}
    /\ run = [r \in Runs |-> IdleRun]
    /\ enq = IdleEnqueue
    /\ snap = IdleSnapshotRun
    /\ starts = 0
    /\ faults = 0
    /\ enqueues = 0
    /\ \E F \in SUBSET RunKeys, b \in 1..MaxBatch, m \in 1..MaxBatches : observed = <<F, b, m>>
    /\ rowCount = [k \in RunKeys |-> IF ledger[k].status = "absent" THEN 0 ELSE 1]
    /\ audit = [r \in Runs |-> IdleAudit]

Fetchable == observed[1]

\* The next run of the schedule.
SnapshotLiveStart ==
    /\ snap.pc \in {"idle", "finished"}
    /\ snap' = [IdleSnapshotRun EXCEPT !.batchSize = observed[2],
                                       !.maxBatches = observed[3], !.pc = "select"]
    /\ UNCHANGED <<ledger, snapshots, deals, lineItems, assoc, run, enq, starts, faults, enqueues, observed, rowCount, audit>>

\* The rows of the batch: a snapshot for each key that can be fetched, an
\* error for each other.
SnapshotLiveProcess ==
    SnapshotRunProcessWith({snap.batch[i] : i \in 1..Len(snap.batch)} \cap Fetchable)

SnapshotLiveStep ==
    \/ SnapshotLiveStart
    \/ SnapshotRunSelect
    \/ SnapshotLiveProcess
    \/ SnapshotRunFails

SpecSnapshotLive ==
    SnapshotLiveInit /\ [][SnapshotLiveStep]_vars /\ WF_vars(SnapshotLiveStep)

\* C36: under repeated snapshot runs every planned row without snapshot whose
\* charges can be fetched gets its snapshot in the end, whatever rows before
\* it fail on every run.
C36_FetchableEventuallySnapshotted ==
    \A k \in RunKeys :
        (ledger[k].status = "planned" /\ ~snapshots[k].exists /\ k \in Fetchable)
            ~> snapshots[k].exists

\* The keys of the rows a run still has to work on.
RowKeys(s) == {s.rows[i][1] : i \in 1..Len(s.rows)}

\* C37: a claim that returns false changes nothing: the step leaves ledger,
\* deals, line items and associations as they are, adds one to skipped_locked
\* and one result, no created and no error, and the run goes on to its next
\* row (or ends), so it makes no later call for the skipped row.
C37_FailedClaimSkipsRow ==
    [][\A r \in Runs :
          (Claim(r) /\ ~ClaimMatches(ledger[CurKey(run[r])])) =>
              /\ ledger' = ledger /\ deals' = deals
              /\ lineItems' = lineItems /\ assoc' = assoc
              /\ run'[r].skippedLocked = run[r].skippedLocked + 1
              /\ run'[r].results = run[r].results + 1
              /\ run'[r].created = run[r].created
              /\ run'[r].errors = run[r].errors
              /\ \/ run'[r].pc = "done"
                 \/ /\ run'[r].pc = "fetch"
                    /\ CurKey(run[r]) \notin RowKeys(run'[r])
                    /\ ~run'[r].rowClaimed /\ run'[r].createdDealIdForRow = NoDeal]_vars

\* A run that skipped one row on a failed claim and created the other.
C37_Witness ==
    \E r \in Runs :
        /\ run[r].pc = "done" /\ run[r].results = 2
        /\ run[r].skippedLocked = 1 /\ run[r].created = 1 /\ run[r].errors = 0

\* C38: a step of a dry run changes neither the ledger, nor the snapshot
\* store, nor the deals, line items and associations of the CRM; the run never
\* claims and never enters a ledger write, a deal POST or a line-item call.
C38_DryRunChangesNothing ==
    [][\A r \in Runs :
          (run[r].dryRun /\ run[r].pc \notin {"idle", "done"} /\ run'[r] # run[r]) =>
              /\ ledger' = ledger /\ snapshots' = snapshots
              /\ deals' = deals /\ lineItems' = lineItems /\ assoc' = assoc
              /\ run[r].pc = "fetch"
              /\ run'[r].pc \in {"fetch", "done"}
              /\ ~run'[r].rowClaimed
              /\ run'[r].created = 0 /\ run'[r].skippedLocked = 0]_vars

\* A finished dry run whose source deal was not found: the row is still
\* planned and the CRM holds no deal.
C38_Witness ==
    \E r \in Runs :
        /\ run[r].dryRun /\ run[r].pc = "done"
        /\ run[r].results = 1 /\ run[r].errors = 1
        /\ ledger[CurKey(run[r])].status = "planned"
        /\ deals = <<>>

\* C39: in a create run that is no dry run every ready row dealt with has
\* one result and one outcome: results = created + skipped_locked + errors
\* all along, with the rows still to come they add up to processed, and the
\* response carries processed = created + skipped_locked + errors results.
C39_OutcomesAddUp ==
    \A r \in DOMAIN run :
        LET s == run[r]
        IN  (s.pc # "idle" /\ ~s.dryRun) =>
              /\ s.results = s.created + s.skippedLocked + s.errors
              /\ s.pc # "done" => s.results + Len(s.rows) = s.processedCount
              /\ s.pc = "done" =>
                    /\ s.results = s.processedCount
                    /\ s.processedCount = s.created + s.skippedLocked + s.errors

\* A finished run over two rows: one created, one an error.
C39_Witness ==
    \E r \in DOMAIN run :
        /\ run[r].pc = "done" /\ ~run[r].dryRun
        /\ run[r].processedCount = 2 /\ run[r].results = 2
        /\ run[r].created = 1 /\ run[r].errors = 1 /\ run[r].skippedLocked = 0

\* C40: when a processLineItemsForRow call that is no dry run returns, each
\* eligible charge has been counted in exactly one of createdCount,
\* dedupedCount and errorCount: the three add up to the number of eligible
\* charges.
C40_OneTallyPerCharge ==
    \A r \in DOMAIN run :
        LET s == run[r]
        IN  (s.pc \in {"amount", "mc_read"} \/ (s.pc = "returned" /\ observed # <<>>)) =>
                s.createdCount + s.dedupedCount + s.errorCount = Len(RowCharges(s))

====
